---- MODULE Spec2Model ----
(***************************************************************************)
(* Model of src/static/script.js of ARQV2: the report renderers            *)
(* (generateResultsHTML and the ten section renderers), the avatar tab     *)
(* controller (showAvatarTab), the plain-text exporter                     *)
(* (generateComprehensiveReport) and the submission pipeline               *)
(* (handleFormSubmit, performAnalysis, displayResults).                    *)
(*                                                                         *)
(* Labels of the templates are written without accents.                    *)
(***************************************************************************)
EXTENDS Integers, Sequences, FiniteSets, TLC

VARIABLES
    currentAnalysis,     \* script.js:2   the stored record, or Null
    analysisInProgress,  \* script.js:3
    request,             \* the fetches of performAnalysis in flight, a number
    displayTimer,        \* the timeouts of script.js:170 not yet fired: their results
    loadingVisible,      \* loadingState.style.display = 'block'
    resultsVisible,      \* resultsContainer.style.display = 'block'
    resultsHTML,         \* resultsContainer.innerHTML, as a structure
    tabFnDefined,        \* window.showAvatarTab has been assigned
    contentActive,       \* ids (without "-content") of .tab-content flagged active
    btnActive,           \* indices of .tab-btn flagged active
    errorNotes,          \* number of error notifications shown
    lastDownload,        \* the file downloadReport emitted last: <<>> or <<file>>
    raised,              \* the handlers that have ended with an uncaught TypeError
    discarded,           \* the tab state replaced by the last displayResults
    nativeShare,         \* script.js:970  navigator.share is present on the host
    shareCalls,          \* number of calls of navigator.share
    clipboardWrites,     \* number of writeText promises not yet settled
    clipboard,           \* the clipboard: <<>> or <<text>>
    copyNotes,           \* number of 'Link copiado' success notifications shown
    intervals,           \* script.js:133  currentStep of each interval with a step left
    progress             \* script.js:138  the step the progress bar shows, 0 before the first

\* the state of shareResults, script.js:969-983
shareVars == <<nativeShare, shareCalls, clipboardWrites, clipboard, copyNotes>>

\* the state of simulateProgress, script.js:121-144
progressVars == <<intervals, progress>>

vars == <<currentAnalysis, analysisInProgress, request, displayTimer,
          loadingVisible, resultsVisible, resultsHTML, tabFnDefined,
          contentActive, btnActive, errorNotes, lastDownload, raised, discarded,
          shareVars, progressVars>>

-----------------------------------------------------------------------------
(* Bounds *)

MaxListLen == 2       \* longest list of strings delivered in a record
MaxNotes == 1         \* cap of the notification counter
MaxAbsent == 2        \* sections absent (or present) together in a record
MaxShares == 2        \* calls of navigator.share, and clipboard writes pending together
MaxIntervals == 2     \* intervals of simulateProgress with steps left together
ProgressSteps == 1    \* steps of the progress simulation (eight at script.js:122-131)

-----------------------------------------------------------------------------
(* JavaScript values.  An object is a sequence of <<key, value>> pairs in   *)
(* insertion order; an absent key reads as undefined.                      *)

Undef == [t |-> "undefined"]
Null == [t |-> "null"]
Str(s) == [t |-> "string", s |-> s]
Arr(a) == [t |-> "array", a |-> a]
Obj(o) == [t |-> "object", o |-> o]

IsNullish(v) == v.t \in {"undefined", "null"}
IsArray(v) == v.t = "array"

\* !v is false
Truthy(v) ==
    CASE v.t = "undefined" -> FALSE
      [] v.t = "null" -> FALSE
      [] v.t = "string" -> v.s # ""
      [] OTHER -> TRUE

HasKey(v, k) == v.t = "object" /\ \E i \in 1..Len(v.o) : v.o[i][1] = k

\* v.k for a v that is not undefined or null (those raise a TypeError)
Get(v, k) ==
    IF HasKey(v, k)
    THEN v.o[CHOOSE i \in 1..Len(v.o) : v.o[i][1] = k][2]
    ELSE Undef

\* v?.k
OptGet(v, k) == IF IsNullish(v) THEN Undef ELSE Get(v, k)

\* A text is the sequence of the pieces a template literal concatenates.
RECURSIVE ToText(_)
RECURSIVE JoinText(_, _)

\* Array.prototype.join: undefined and null elements give the empty string
JoinText(a, sep) ==
    IF Len(a) = 0 THEN <<"">>
    ELSE LET h == IF IsNullish(a[1]) THEN <<"">> ELSE ToText(a[1])
         IN IF Len(a) = 1 THEN h
            ELSE h \o <<sep>> \o JoinText(Tail(a), sep)

\* `${v}`
ToText(v) ==
    CASE v.t = "undefined" -> <<"undefined">>
      [] v.t = "null" -> <<"null">>
      [] v.t = "string" -> <<v.s>>
      [] v.t = "array" -> JoinText(v.a, ",")
      [] OTHER -> <<"[object Object]">>

\* the text is the empty string
TextEmpty(txt) == \A i \in 1..Len(txt) : txt[i] = ""

-----------------------------------------------------------------------------
(* Fragments.  A renderer result is [ok, v]: ok = FALSE is a raised         *)
(* TypeError.  An item is one element of a collection (li, p, div); a      *)
(* field is a labelled block with its items.                               *)

Placeholder == "Nao especificado"
NA == "N/A"

Thrown == [ok |-> FALSE, v |-> <<>>]
Ok(v) == [ok |-> TRUE, v |-> v]

Item(tag, cls, lines) == [tag |-> tag, cls |-> cls, lines |-> lines, marks |-> <<>>]
Field(label, tab, r) == [label |-> label, tab |-> tab, items |-> r.v]

\* `<p>${v}</p>`
Scalar(v) == Ok(<<Item("p", "", <<ToText(v)>>)>>)

\* `<p>${v || fallback}</p>`
ScalarOr(v, cls, fallback) ==
    Ok(<<Item("p", cls, <<IF Truthy(v) THEN ToText(v) ELSE <<fallback>>>>)>>)

\* `${x?.map(v => `<li>${v}</li>`).join('') || '<li>Nao especificado</li>'}`
LiList(x, cls) ==
    IF IsNullish(x) THEN Ok(<<Item("li", "", <<<<Placeholder>>>>)>>)
    ELSE IF ~IsArray(x) THEN Thrown
    ELSE IF Len(x.a) = 0 THEN Ok(<<Item("li", "", <<<<Placeholder>>>>)>>)
    ELSE Ok([i \in 1..Len(x.a) |-> Item("li", cls, <<ToText(x.a[i])>>)])

\* `${x?.join(', ') || 'Nao especificado'}` inside a <p>
JoinedOr(x, cls) ==
    IF IsNullish(x) THEN Ok(<<Item("p", cls, <<<<Placeholder>>>>)>>)
    ELSE IF ~IsArray(x) THEN Thrown
    ELSE LET txt == JoinText(x.a, ", ")
         IN Ok(<<Item("p", cls, <<IF TextEmpty(txt) THEN <<Placeholder>> ELSE txt>>)>>)

AllOk(rs) == \A i \in 1..Len(rs) : rs[i].ok

\* the value of a template literal whose parts S have been evaluated, each
\* ${...} once and in order
Template(S) == CHOOSE out \in S : TRUE

\* a section card: title and labelled fields; a raise in any field raises
Card(sec, title, labels, tabs, rs, buttons, contents) ==
    Template({IF ~AllOk(r) THEN Thrown
              ELSE Ok(<<[sec |-> sec, title |-> title,
                         fields |-> [i \in 1..Len(r) |-> Field(labels[i], tabs[i], r[i])],
                         buttons |-> buttons, contents |-> contents]>>)
              : r \in {rs}})

NoTabs(n) == [i \in 1..n |-> ""]

generateEscopoSection(escopo) ==
    IF ~Truthy(escopo) THEN Ok(<<>>)
    ELSE Card("escopo", "Definicao do Escopo",
              <<"Nicho Principal:", "Subnichos Identificados:",
                "Produto Ideal:", "Proposta de Valor Unica:">>,
              NoTabs(4),
              <<Scalar(Get(escopo, "nicho_principal")),
                LiList(Get(escopo, "subnichos"), ""),
                Scalar(Get(escopo, "produto_ideal")),
                Scalar(Get(escopo, "proposta_valor"))>>,
              <<>>, <<>>)

\* String.prototype.toLowerCase, on the strings of the model
ToLower(s) ==
    CASE s = "Alta" -> "alta"
      [] s = "ALTA" -> "alta"
      [] s = "Media" -> "media"
      [] s = "Baixa" -> "baixa"
      [] OTHER -> s

\* key.charAt(0).toUpperCase() + key.slice(1), on the keys of the model
Capitalize(k) ==
    CASE k = "google" -> "Google"
      [] k = "meta" -> "Meta"
      [] k = "tikTok" -> "TikTok"
      [] k = "a" -> "A"
      [] k = "b" -> "B"
      [] OTHER -> k

Labelled(label, v) == <<label>> \o ToText(v)

\* the dor-item template, script.js:412-416
DorItem(dor, index) ==
    IF IsNullish(dor) THEN Thrown
    ELSE LET u == Get(dor, "urgencia")
         IN IF ~IsNullish(u) /\ u.t # "string" THEN Thrown
            ELSE Ok([tag |-> "div", cls |-> "dor-item",
                     lines |-> <<<<"Dor ", ToString(index), ": ">>
                                    \o ToText(Get(dor, "descricao")),
                                 Labelled("Impacto:", Get(dor, "impacto")),
                                 Labelled("Urgencia:", u)>>,
                     marks |-> <<"urgencia",
                                 IF IsNullish(u) THEN "undefined"
                                 ELSE ToLower(u.s)>>])

\* `${v}` without the shape test: a sequence prints with bare commas
JoinIfArray_NoTest(v) == ToText(v)

\* `${Array.isArray(v) ? v.join(', ') : v}`
JoinIfArray(v) == IF IsArray(v) THEN JoinText(v.a, ", ") ELSE ToText(v)

\* the concorrente-item template, script.js:465-471
ConcItem(conc, index) ==
    IF IsNullish(conc) THEN Thrown
    ELSE Ok(Item("div", "concorrente-item",
                 <<ToText(Get(conc, "nome")),
                   Labelled("Preco:", Get(conc, "preco")),
                   Labelled("USP:", Get(conc, "usp")),
                   <<"Forcas:">> \o JoinIfArray(Get(conc, "forcas")),
                   <<"Fraquezas:">> \o JoinIfArray(Get(conc, "fraquezas"))>>))

\* the indireto-item template, script.js:480-483
IndItem(ind, index) ==
    IF IsNullish(ind) THEN Thrown
    ELSE Ok(Item("div", "indireto-item",
                 <<ToText(Get(ind, "nome")),
                   Labelled("Tipo:", Get(ind, "tipo"))>>))

\* the keyword-item template, script.js:580-588
KeywordItem(kw, index) ==
    IF IsNullish(kw) THEN Thrown
    ELSE Ok(Item("div", "keyword-item",
                 <<ToText(Get(kw, "termo")),
                   Labelled("Volume: ", Get(kw, "volume")),
                   Labelled("CPC: ", Get(kw, "cpc")),
                   Labelled("Dificuldade: ", Get(kw, "dificuldade")),
                   Labelled("Intencao: ", Get(kw, "intencao"))>>))

\* the platform-item template, script.js:597-605
PlatformItem(platform, costs) ==
    IF IsNullish(costs) THEN Thrown
    ELSE Ok(Item("div", "platform-item",
                 <<<<Capitalize(platform)>>,
                   Labelled("CPM: ", Get(costs, "cpm")),
                   Labelled("CPC: ", Get(costs, "cpc")),
                   Labelled("CPL: ", Get(costs, "cpl")),
                   Labelled("Conversao: ", Get(costs, "conversao"))>>))

\* the funil-step template, script.js:647-650
FunilStep(step, index) ==
    Ok(Item("div", "funil-step", <<<<ToString(index)>>, ToText(step)>>))

\* the roi-item template, script.js:659-662
RoiItem(channel, roi) ==
    Ok(Item("div", "roi-item", <<<<Capitalize(channel)>>, ToText(roi)>>))

\* the objecao-item template, script.js:689-692
ObjecaoItem(obj, index) ==
    IF IsNullish(obj) THEN Thrown
    ELSE Ok(Item("div", "objecao-item",
                 <<<<"Objecao ", ToString(index), ": ">>
                      \o ToText(Get(obj, "objecao")),
                   Labelled("Como contornar:", Get(obj, "contorno"))>>))

\* the acao-item template, script.js:822-828
AcaoItem(acao, index) ==
    IF IsNullish(acao) THEN Thrown
    ELSE Ok(Item("div", "acao-item",
                 <<ToText(Get(acao, "passo")),
                   ToText(Get(acao, "acao")),
                   Labelled("Prazo:", Get(acao, "prazo"))>>))

\* the arrow function handed to map, by the name of its template
ItemTpl(tpl, it, index) ==
    CASE tpl = "dor-item" -> DorItem(it, index)
      [] tpl = "concorrente-item" -> ConcItem(it, index)
      [] tpl = "indireto-item" -> IndItem(it, index)
      [] tpl = "keyword-item" -> KeywordItem(it, index)
      [] tpl = "funil-step" -> FunilStep(it, index)
      [] tpl = "objecao-item" -> ObjecaoItem(it, index)
      [] tpl = "acao-item" -> AcaoItem(it, index)

\* the arrow function handed to map over Object.entries
EntryTpl(tpl, k, v) ==
    CASE tpl = "platform-item" -> PlatformItem(k, v)
      [] tpl = "roi-item" -> RoiItem(k, v)

\* `${x?.map((it, index) => tpl(it, index)).join('') || '<p>Nao especificado</p>'}`
ItemList(x, tpl) ==
    IF IsNullish(x) THEN Ok(<<Item("p", "", <<<<Placeholder>>>>)>>)
    ELSE IF ~IsArray(x) THEN Thrown
    ELSE IF \E i \in 1..Len(x.a) : ~ItemTpl(tpl, x.a[i], i).ok THEN Thrown
    ELSE IF Len(x.a) = 0 THEN Ok(<<Item("p", "", <<<<Placeholder>>>>)>>)
    ELSE Ok([i \in 1..Len(x.a) |-> ItemTpl(tpl, x.a[i], i).v])

\* the keys of the model that are array indices, ascending
IndexKeys == <<"0", "1", "2">>

\* the own properties of an object delivered as o, in the order Object.entries
\* walks them: array-index keys ascending, then the others as delivered
OwnEntries(o) ==
    LET idx == SelectSeq(IndexKeys, LAMBDA k : HasKey(o, k))
    IN [i \in 1..Len(idx) |-> <<idx[i], Get(o, idx[i])>>]
       \o SelectSeq(o.o, LAMBDA kv : \A j \in 1..Len(IndexKeys) : kv[1] # IndexKeys[j])

\* Object.entries(x || {}), x an object or an array
Entries(x) ==
    IF ~Truthy(x) THEN <<>>
    ELSE IF x.t = "object" THEN OwnEntries(x)
    ELSE IF x.t = "array" THEN [i \in 1..Len(x.a) |-> <<ToString(i - 1), x.a[i]>>]
    ELSE <<>>

\* `${Object.entries(x || {}).map(([k, v]) => tpl(k, v)).join('')}`
EntryList(x, tpl) ==
    LET es == Entries(x)
    IN IF \E i \in 1..Len(es) : ~EntryTpl(tpl, es[i][1], es[i][2]).ok THEN Thrown
       ELSE Ok([i \in 1..Len(es) |-> EntryTpl(tpl, es[i][1], es[i][2]).v])

\* a map that first sorts the entries by passo: those of passo 1 first
PlainItemList_Sorted(x, tpl) ==
    IF ~IsArray(x) THEN Thrown
    ELSE IF \E i \in 1..Len(x.a) : ~ItemTpl(tpl, x.a[i], i).ok THEN Thrown
    ELSE LET sorted == SelectSeq(x.a, LAMBDA e : Get(e, "passo") = Str("1"))
                       \o SelectSeq(x.a, LAMBDA e : Get(e, "passo") # Str("1"))
         IN Ok([i \in 1..Len(sorted) |-> ItemTpl(tpl, sorted[i], i).v])

\* `${plano_acao.map(acao => ...).join('')}`: no ?. and no fallback
PlainItemList(x, tpl) ==
    IF ~IsArray(x) THEN Thrown
    ELSE IF \E i \in 1..Len(x.a) : ~ItemTpl(tpl, x.a[i], i).ok THEN Thrown
    ELSE Ok([i \in 1..Len(x.a) |-> ItemTpl(tpl, x.a[i], i).v])

AvatarButtons ==
    <<[text |-> "Demografia", onclick |-> "demografia", active |-> TRUE],
      [text |-> "Psicografia", onclick |-> "psicografia", active |-> FALSE],
      [text |-> "Comportamento Digital", onclick |-> "comportamento", active |-> FALSE]>>

AvatarContents ==
    <<[id |-> "demografia", active |-> TRUE],
      [id |-> "psicografia", active |-> FALSE],
      [id |-> "comportamento", active |-> FALSE]>>

generateAvatarSection(avatar) ==
    IF ~Truthy(avatar) THEN Ok(<<>>)
    ELSE LET d == Get(avatar, "demografia")
             p == Get(avatar, "psicografia")
             c == Get(avatar, "comportamento_digital")
         IN Card("avatar", "Analise Completa do Avatar",
              <<"Faixa Etaria:", "Genero:", "Localizacao:", "Renda:",
                "Escolaridade:", "Profissoes Principais:",
                "Valores Principais:", "Estilo de Vida:", "Aspiracoes:",
                "Medos Principais:", "Frustracoes:",
                "Plataformas Principais:", "Horarios de Pico:",
                "Conteudo Preferido:", "Influenciadores que Seguem:">>,
              [i \in 1..15 |-> IF i <= 6 THEN "demografia"
                               ELSE IF i <= 11 THEN "psicografia"
                               ELSE "comportamento"],
              <<ScalarOr(OptGet(d, "faixa_etaria"), "", Placeholder),
                ScalarOr(OptGet(d, "genero"), "", Placeholder),
                ScalarOr(OptGet(d, "localizacao"), "", Placeholder),
                ScalarOr(OptGet(d, "renda"), "", Placeholder),
                ScalarOr(OptGet(d, "escolaridade"), "", Placeholder),
                LiList(OptGet(d, "profissoes"), ""),
                LiList(OptGet(p, "valores"), ""),
                ScalarOr(OptGet(p, "estilo_vida"), "", Placeholder),
                LiList(OptGet(p, "aspiracoes"), ""),
                LiList(OptGet(p, "medos"), ""),
                LiList(OptGet(p, "frustracoes"), ""),
                LiList(OptGet(c, "plataformas"), ""),
                ScalarOr(OptGet(c, "horarios_pico"), "", Placeholder),
                LiList(OptGet(c, "conteudo_preferido"), ""),
                LiList(OptGet(c, "influenciadores"), "")>>,
              AvatarButtons, AvatarContents)

generateDoresDesejos(dd) ==
    IF ~Truthy(dd) THEN Ok(<<>>)
    ELSE Card("dores_desejos", "Mapeamento de Dores e Desejos",
              <<"Principais Dores Identificadas:", "Estado Atual:",
                "Estado Desejado:", "Obstaculos Percebidos:", "Sonho Secreto:">>,
              NoTabs(5),
              <<ItemList(Get(dd, "principais_dores"), "dor-item"),
                ScalarOr(Get(dd, "estado_atual"), "", Placeholder),
                ScalarOr(Get(dd, "estado_desejado"), "", Placeholder),
                LiList(Get(dd, "obstaculos"), ""),
                ScalarOr(Get(dd, "sonho_secreto"), "sonho-secreto", Placeholder)>>,
              <<>>, <<>>)

generateConcorrenciaSection(concorrencia) ==
    IF ~Truthy(concorrencia) THEN Ok(<<>>)
    ELSE Card("concorrencia", "Analise da Concorrencia",
              <<"Concorrentes Diretos:", "Concorrentes Indiretos:",
                "Gaps de Mercado Identificados:">>,
              NoTabs(3),
              <<ItemList(Get(concorrencia, "diretos"), "concorrente-item"),
                ItemList(Get(concorrencia, "indiretos"), "indireto-item"),
                LiList(Get(concorrencia, "gaps_mercado"), "")>>,
              <<>>, <<>>)

generateMercadoSection(mercado) ==
    IF ~Truthy(mercado) THEN Ok(<<>>)
    ELSE LET s == Get(mercado, "sazonalidade")
         IN Card("mercado", "Analise de Mercado",
              <<"TAM (Total Addressable Market)",
                "SAM (Serviceable Addressable Market)",
                "SOM (Serviceable Obtainable Market)",
                "Volume de Busca Mensal:", "Tendencias em Alta:",
                "Tendencias em Baixa:", "Melhores Meses:", "Piores Meses:">>,
              NoTabs(8),
              <<ScalarOr(Get(mercado, "tam"), "metric-value", NA),
                ScalarOr(Get(mercado, "sam"), "metric-value", NA),
                ScalarOr(Get(mercado, "som"), "metric-value", NA),
                ScalarOr(Get(mercado, "volume_busca"), "", Placeholder),
                LiList(Get(mercado, "tendencias_alta"), "trend-up"),
                LiList(Get(mercado, "tendencias_baixa"), "trend-down"),
                JoinedOr(OptGet(s, "melhores_meses"), "meses-bons"),
                JoinedOr(OptGet(s, "piores_meses"), "meses-ruins")>>,
              <<>>, <<>>)

generatePalavrasChaveSection(pc) ==
    IF ~Truthy(pc) THEN Ok(<<>>)
    ELSE Card("palavras_chave", "Analise de Palavras-Chave",
              <<"Principais Palavras-Chave:", "Custos por Plataforma:">>,
              NoTabs(2),
              <<ItemList(Get(pc, "principais"), "keyword-item"),
                EntryList(Get(pc, "custos_plataforma"), "platform-item")>>,
              <<>>, <<>>)

generateMetricasSection(metricas) ==
    IF ~Truthy(metricas) THEN Ok(<<>>)
    ELSE Card("metricas", "Metricas de Performance",
              <<"CAC Medio", "LTV Medio", "LTV:CAC Ratio",
                "Funil de Conversao:", "ROI por Canal:">>,
              NoTabs(5),
              <<ScalarOr(Get(metricas, "cac_medio"), "metric-value", NA),
                ScalarOr(Get(metricas, "ltv_medio"), "metric-value", NA),
                ScalarOr(Get(metricas, "ltv_cac_ratio"), "metric-value", NA),
                ItemList(Get(metricas, "funil_conversao"), "funil-step"),
                EntryList(Get(metricas, "roi_canais"), "roi-item")>>,
              <<>>, <<>>)

generateVozMercadoSection(vm) ==
    IF ~Truthy(vm) THEN Ok(<<>>)
    ELSE LET l == Get(vm, "linguagem")
         IN Card("voz_mercado", "Voz do Mercado",
              <<"Principais Objecoes e Como Contorna-las:", "Termos Tecnicos:",
                "Girias e Expressoes:", "Gatilhos Emocionais:",
                "Crencas Limitantes Comuns:">>,
              NoTabs(5),
              <<ItemList(Get(vm, "objecoes"), "objecao-item"),
                LiList(OptGet(l, "termos"), ""),
                LiList(OptGet(l, "girias"), ""),
                LiList(OptGet(l, "gatilhos"), ""),
                LiList(Get(vm, "crencas_limitantes"), "")>>,
              <<>>, <<>>)

\* `<span class="value">${v || 'N/A'}</span>`
ValueOr(v) == Ok(<<Item("span", "value", <<IF Truthy(v) THEN ToText(v) ELSE <<NA>>>>)>>)

generateProjecoesSection(projecoes) ==
    IF ~Truthy(projecoes) THEN Ok(<<>>)
    ELSE LET c == Get(projecoes, "conservador")
             r == Get(projecoes, "realista")
             o == Get(projecoes, "otimista")
         IN Card("projecoes", "Projecoes de Resultados",
              <<"Conservador Conversao:", "Conservador Faturamento:", "Conservador ROI:",
                "Realista Conversao:", "Realista Faturamento:", "Realista ROI:",
                "Otimista Conversao:", "Otimista Faturamento:", "Otimista ROI:">>,
              NoTabs(9),
              <<ValueOr(OptGet(c, "conversao")), ValueOr(OptGet(c, "faturamento")),
                ValueOr(OptGet(c, "roi")),
                ValueOr(OptGet(r, "conversao")), ValueOr(OptGet(r, "faturamento")),
                ValueOr(OptGet(r, "roi")),
                ValueOr(OptGet(o, "conversao")), ValueOr(OptGet(o, "faturamento")),
                ValueOr(OptGet(o, "roi"))>>,
              <<>>, <<>>)

\* without the guard of script.js:808
generatePlanoAcaoSection_NoGuard(plano_acao) ==
    Card("plano_acao", "Plano de Acao Estrategico",
         <<"Plano de Acao">>, NoTabs(1),
         <<PlainItemList(plano_acao, "acao-item")>>,
         <<>>, <<>>)

generatePlanoAcaoSection(plano_acao) ==
    IF ~Truthy(plano_acao) THEN Ok(<<>>)
    ELSE Card("plano_acao", "Plano de Acao Estrategico",
              <<"Plano de Acao">>, NoTabs(1),
              <<PlainItemList(plano_acao, "acao-item")>>,
              <<>>, <<>>)

ResultsHeader ==
    [title |-> "Analise Completa Finalizada",
     actions |-> <<"downloadReport()", "shareResults()">>]

\* the template of script.js:197-234; analysis is an object
\* a composer that walks the keys of the record in the order delivered
generateResultsHTML_KeyOrder(analysis) ==
    LET tpl(k, v) ==
            CASE k = "escopo" -> generateEscopoSection(v)
              [] k = "avatar" -> generateAvatarSection(v)
              [] k = "dores_desejos" -> generateDoresDesejos(v)
              [] k = "concorrencia" -> generateConcorrenciaSection(v)
              [] k = "mercado" -> generateMercadoSection(v)
              [] k = "palavras_chave" -> generatePalavrasChaveSection(v)
              [] k = "metricas" -> generateMetricasSection(v)
              [] k = "voz_mercado" -> generateVozMercadoSection(v)
              [] k = "projecoes" -> generateProjecoesSection(v)
              [] k = "plano_acao" -> generatePlanoAcaoSection(v)
    IN IF IsNullish(analysis) THEN Thrown
       ELSE Template({IF ~AllOk(r) THEN Thrown
                      ELSE Ok([header |-> <<ResultsHeader>>,
                               grid |-> [i \in 1..Len(r) |-> r[i].v[1]]])
                      : r \in {[i \in 1..Len(analysis.o) |->
                                   tpl(analysis.o[i][1], analysis.o[i][2])]}})

generateResultsHTML(analysis) ==
    LET rs == <<generateEscopoSection(Get(analysis, "escopo")),
                generateAvatarSection(Get(analysis, "avatar")),
                generateDoresDesejos(Get(analysis, "dores_desejos")),
                generateConcorrenciaSection(Get(analysis, "concorrencia")),
                generateMercadoSection(Get(analysis, "mercado")),
                generatePalavrasChaveSection(Get(analysis, "palavras_chave")),
                generateMetricasSection(Get(analysis, "metricas")),
                generateVozMercadoSection(Get(analysis, "voz_mercado")),
                generateProjecoesSection(Get(analysis, "projecoes")),
                generatePlanoAcaoSection(Get(analysis, "plano_acao"))>>
    IN IF IsNullish(analysis) THEN Thrown
       ELSE Template({IF ~AllOk(r) THEN Thrown
                      ELSE Ok([header |-> <<ResultsHeader>>,
                               grid |-> r[1].v \o r[2].v \o r[3].v \o r[4].v \o r[5].v
                                        \o r[6].v \o r[7].v \o r[8].v \o r[9].v \o r[10].v])
                      : r \in {rs}})

-----------------------------------------------------------------------------
(* The plain-text exporter, script.js:886-967.  The document is a sequence  *)
(* of lines [sec, kind, label, text].                                      *)

\* a line whose title reads the state of the page beside the record
Line_Stateful(sec, kind, label, text) ==
    [sec |-> sec, kind |-> kind, label |-> label,
     text |-> IF kind = "title" /\ resultsVisible THEN <<"visible">> ELSE text]

Line(sec, kind, label, text) == [sec |-> sec, kind |-> kind, label |-> label, text |-> text]
Header(sec, label) == Ok(<<Line(sec, "header", label, <<>>)>>)
Sub(sec, label) == Ok(<<Line(sec, "sub", label, <<>>)>>)

\* `label: ${v || 'N/A'}`
ExScalar(sec, label, v) ==
    Ok(<<Line(sec, "field", label, IF Truthy(v) THEN ToText(v) ELSE <<NA>>)>>)

\* `label: ${x?.join(', ') || 'N/A'}`
ExJoin(sec, label, x) ==
    IF IsNullish(x) THEN Ok(<<Line(sec, "field", label, <<NA>>)>>)
    ELSE IF ~IsArray(x) THEN Thrown
    ELSE LET txt == JoinText(x.a, ", ")
         IN Ok(<<Line(sec, "field", label, IF TextEmpty(txt) THEN <<NA>> ELSE txt)>>)

\* `${acao.passo}. ${acao.acao} (${acao.prazo})`
ExAcao(acao) ==
    IF IsNullish(acao) THEN Thrown
    ELSE Ok(Line("plano_acao", "item", "",
                 ToText(Get(acao, "passo")) \o <<". ">> \o ToText(Get(acao, "acao"))
                 \o <<" (">> \o ToText(Get(acao, "prazo")) \o <<")">>))

\* `${x?.map(acao => ...).join('\n') || 'N/A'}`
ExPlano(x) ==
    IF IsNullish(x) THEN Ok(<<Line("plano_acao", "field", "", <<NA>>)>>)
    ELSE IF ~IsArray(x) THEN Thrown
    ELSE IF \E i \in 1..Len(x.a) : ~ExAcao(x.a[i]).ok THEN Thrown
    ELSE IF \A i \in 1..Len(x.a) : TextEmpty(ExAcao(x.a[i]).v.text)
         THEN Ok(<<Line("plano_acao", "field", "", <<NA>>)>>)
    ELSE Ok([i \in 1..Len(x.a) |-> ExAcao(x.a[i]).v])

RECURSIVE Flatten(_)
Flatten(rs) == IF Len(rs) = 0 THEN <<>> ELSE Head(rs).v \o Flatten(Tail(rs))

ExCenario(sec, label, c) ==
    <<Sub(sec, label),
      ExScalar(sec, "- Conversao: ", OptGet(c, "conversao")),
      ExScalar(sec, "- Faturamento: ", OptGet(c, "faturamento")),
      ExScalar(sec, "- ROI: ", OptGet(c, "roi"))>>

generateComprehensiveReport(analysis, now) ==
    LET escopo == Get(analysis, "escopo")
        d == OptGet(Get(analysis, "avatar"), "demografia")
        p == OptGet(Get(analysis, "avatar"), "psicografia")
        c == OptGet(Get(analysis, "avatar"), "comportamento_digital")
        dd == Get(analysis, "dores_desejos")
        m == Get(analysis, "mercado")
        mt == Get(analysis, "metricas")
        pj == Get(analysis, "projecoes")
        rs == <<Ok(<<Line("", "title", "RELATORIO COMPLETO DE ANALISE DE AVATAR", <<>>)>>),
                Ok(<<Line("", "generated", "Gerado em: ", <<ToString(now)>>)>>),
                Ok(<<Line("", "title", "Powered by DeepSeek AI", <<>>)>>),
                Header("escopo", "DEFINICAO DO ESCOPO"),
                ExScalar("escopo", "Nicho Principal: ", OptGet(escopo, "nicho_principal")),
                ExJoin("escopo", "Subnichos: ", OptGet(escopo, "subnichos")),
                ExScalar("escopo", "Produto Ideal: ", OptGet(escopo, "produto_ideal")),
                ExScalar("escopo", "Proposta de Valor: ", OptGet(escopo, "proposta_valor")),
                Header("avatar", "ANALISE DO AVATAR"),
                Sub("avatar", "DEMOGRAFIA:"),
                ExScalar("avatar", "- Faixa Etaria: ", OptGet(d, "faixa_etaria")),
                ExScalar("avatar", "- Genero: ", OptGet(d, "genero")),
                ExScalar("avatar", "- Localizacao: ", OptGet(d, "localizacao")),
                ExScalar("avatar", "- Renda: ", OptGet(d, "renda")),
                ExScalar("avatar", "- Escolaridade: ", OptGet(d, "escolaridade")),
                ExJoin("avatar", "- Profissoes: ", OptGet(d, "profissoes")),
                Sub("avatar", "PSICOGRAFIA:"),
                ExJoin("avatar", "- Valores: ", OptGet(p, "valores")),
                ExScalar("avatar", "- Estilo de Vida: ", OptGet(p, "estilo_vida")),
                ExJoin("avatar", "- Aspiracoes: ", OptGet(p, "aspiracoes")),
                ExJoin("avatar", "- Medos: ", OptGet(p, "medos")),
                ExJoin("avatar", "- Frustracoes: ", OptGet(p, "frustracoes")),
                Sub("avatar", "COMPORTAMENTO DIGITAL:"),
                ExJoin("avatar", "- Plataformas: ", OptGet(c, "plataformas")),
                ExScalar("avatar", "- Horarios de Pico: ", OptGet(c, "horarios_pico")),
                ExJoin("avatar", "- Conteudo Preferido: ", OptGet(c, "conteudo_preferido")),
                Header("dores_desejos", "DORES E DESEJOS"),
                ExScalar("dores_desejos", "Estado Atual: ", OptGet(dd, "estado_atual")),
                ExScalar("dores_desejos", "Estado Desejado: ", OptGet(dd, "estado_desejado")),
                ExScalar("dores_desejos", "Sonho Secreto: ", OptGet(dd, "sonho_secreto")),
                Header("mercado", "ANALISE DE MERCADO"),
                ExScalar("mercado", "TAM: ", OptGet(m, "tam")),
                ExScalar("mercado", "SAM: ", OptGet(m, "sam")),
                ExScalar("mercado", "SOM: ", OptGet(m, "som")),
                ExScalar("mercado", "Volume de Busca: ", OptGet(m, "volume_busca")),
                Header("metricas", "METRICAS DE PERFORMANCE"),
                ExScalar("metricas", "CAC Medio: ", OptGet(mt, "cac_medio")),
                ExScalar("metricas", "LTV Medio: ", OptGet(mt, "ltv_medio")),
                ExScalar("metricas", "LTV:CAC Ratio: ", OptGet(mt, "ltv_cac_ratio")),
                Header("projecoes", "PROJECOES")>>
              \o ExCenario("projecoes", "CONSERVADOR:", OptGet(pj, "conservador"))
              \o ExCenario("projecoes", "REALISTA:", OptGet(pj, "realista"))
              \o ExCenario("projecoes", "OTIMISTA:", OptGet(pj, "otimista"))
              \o <<Header("plano_acao", "PLANO DE ACAO")>>
        plano == ExPlano(Get(analysis, "plano_acao"))
        footer == <<Line("", "footer", "Relatorio gerado pela plataforma UP Lancamentos", <<>>),
                    Line("", "footer", "Analise powered by DeepSeek AI", <<>>)>>
    IN IF IsNullish(analysis) THEN Thrown
       ELSE Template({IF ~AllOk(r) \/ ~pl.ok THEN Thrown
                      ELSE Ok([i \in 1..Len(r) |-> r[i].v[1]] \o pl.v \o footer)
                      : r \in {rs}, pl \in {plano}})

-----------------------------------------------------------------------------
(* The records delivered by /api/analyze.                                   *)

SectionKeys ==
    <<"escopo", "avatar", "dores_desejos", "concorrencia", "mercado",
      "palavras_chave", "metricas", "voz_mercado", "projecoes", "plano_acao">>

Sections == {SectionKeys[i] : i \in 1..Len(SectionKeys)}

\* the keys whose value is a mapping from a free name to a value
MapKeys == {"custos_plataforma", "roi_canais"}

SA == Str("a")
SB == Str("b")
AB == Arr(<<SA, SB>>)

FullCenario == Obj(<<<<"conversao", SA>>, <<"faturamento", SA>>, <<"roi", SB>>>>)

FullSection(k) ==
    CASE k = "escopo" ->
           Obj(<<<<"nicho_principal", SA>>, <<"subnichos", AB>>,
                 <<"produto_ideal", SB>>, <<"proposta_valor", SA>>>>)
      [] k = "avatar" ->
           Obj(<<<<"demografia",
                   Obj(<<<<"faixa_etaria", SA>>, <<"genero", SB>>, <<"localizacao", SA>>,
                         <<"renda", SB>>, <<"escolaridade", SA>>, <<"profissoes", AB>>>>)>>,
                 <<"psicografia",
                   Obj(<<<<"valores", AB>>, <<"estilo_vida", SA>>, <<"aspiracoes", AB>>,
                         <<"medos", AB>>, <<"frustracoes", AB>>>>)>>,
                 <<"comportamento_digital",
                   Obj(<<<<"plataformas", AB>>, <<"horarios_pico", SB>>,
                         <<"conteudo_preferido", AB>>, <<"influenciadores", AB>>>>)>>>>)
      [] k = "dores_desejos" ->
           Obj(<<<<"principais_dores",
                   Arr(<<Obj(<<<<"descricao", SA>>, <<"impacto", SB>>,
                               <<"urgencia", Str("alta")>>>>)>>)>>,
                 <<"estado_atual", SA>>, <<"estado_desejado", SB>>,
                 <<"sonho_secreto", SA>>, <<"obstaculos", AB>>>>)
      [] k = "concorrencia" ->
           Obj(<<<<"diretos",
                   Arr(<<Obj(<<<<"nome", SA>>, <<"preco", SB>>, <<"usp", SA>>,
                               <<"forcas", AB>>, <<"fraquezas", Str("a, b")>>>>)>>)>>,
                 <<"indiretos", Arr(<<Obj(<<<<"nome", SB>>, <<"tipo", SA>>>>)>>)>>,
                 <<"gaps_mercado", AB>>>>)
      [] k = "mercado" ->
           Obj(<<<<"tam", SA>>, <<"sam", SB>>, <<"som", SA>>, <<"volume_busca", SB>>,
                 <<"tendencias_alta", AB>>, <<"tendencias_baixa", AB>>,
                 <<"sazonalidade",
                   Obj(<<<<"melhores_meses", AB>>, <<"piores_meses", AB>>>>)>>>>)
      [] k = "palavras_chave" ->
           Obj(<<<<"principais",
                   Arr(<<Obj(<<<<"termo", SA>>, <<"volume", SB>>, <<"cpc", SA>>,
                               <<"dificuldade", SB>>, <<"intencao", SA>>>>)>>)>>,
                 <<"custos_plataforma",
                   Obj(<<<<"google",
                           Obj(<<<<"cpm", SA>>, <<"cpc", SB>>, <<"cpl", SA>>,
                                 <<"conversao", SB>>>>)>>>>)>>>>)
      [] k = "metricas" ->
           Obj(<<<<"cac_medio", SA>>, <<"ltv_medio", SB>>, <<"ltv_cac_ratio", SA>>,
                 <<"funil_conversao", AB>>,
                 <<"roi_canais", Obj(<<<<"meta", SA>>, <<"google", SB>>>>)>>>>)
      [] k = "voz_mercado" ->
           Obj(<<<<"objecoes", Arr(<<Obj(<<<<"objecao", SA>>, <<"contorno", SB>>>>)>>)>>,
                 <<"linguagem",
                   Obj(<<<<"termos", AB>>, <<"girias", AB>>, <<"gatilhos", AB>>>>)>>,
                 <<"crencas_limitantes", AB>>>>)
      [] k = "projecoes" ->
           Obj(<<<<"conservador", FullCenario>>, <<"realista", FullCenario>>,
                 <<"otimista", FullCenario>>>>)
      [] k = "plano_acao" ->
           Arr(<<Obj(<<<<"passo", Str("1")>>, <<"acao", SA>>, <<"prazo", SB>>>>)>>)

\* the object o with key k set to x; x = Undef removes the key
With(o, k, x) ==
    LET keep == SelectSeq(o.o, LAMBDA kv : kv[1] # k)
    IN IF x = Undef THEN Obj(keep)
       ELSE IF HasKey(o, k)
            THEN Obj([i \in 1..Len(o.o) |-> IF o.o[i][1] = k THEN <<k, x>> ELSE o.o[i]])
            ELSE Obj(Append(o.o, <<k, x>>))

KeysOf(o) == {o.o[i][1] : i \in 1..Len(o.o)}

\* the lists of at most MaxListLen elements: copies of first, then one of last
ListsOf(first, lasts) ==
    {<<>>} \cup
    {[i \in 1..n |-> IF i < n THEN first ELSE l] : n \in 1..MaxListLen, l \in lasts}

\* The shapes section 3 of the specification allows in the place of the
\* sample value v, changed in one place: an optional scalar, list or
\* sub-object may be absent (Undef) or null; an element of a list or an
\* entry of a mapping is never null.
RECURSIVE ValueVariants(_)

\* a mapping: an entry removed or changed
MapVariants(m) ==
    {m, Obj(<<>>)} \cup
    UNION {{With(m, e, x) : x \in ValueVariants(Get(m, e)) \cup {Undef}} : e \in KeysOf(m)}

ValueVariants(v) ==
    CASE v.t = "string" -> {v, Str("")}
      [] v.t = "array" ->
           IF Len(v.a) = 0 THEN {v}
           ELSE IF v.a[1].t = "string"
                THEN {Arr(l) : l \in ListsOf(v.a[1], {SA, SB})}
                ELSE {Arr(l) : l \in ListsOf(v.a[1], ValueVariants(v.a[1]))}
      [] v.t = "object" ->
           {v, Obj(<<>>)} \cup
           UNION {{With(v, k, x) :
                     x \in {Undef, Null} \cup
                           (IF k \in MapKeys THEN MapVariants(Get(v, k))
                            ELSE ValueVariants(Get(v, k)))}
                  : k \in KeysOf(v)}
      [] OTHER -> {v}

\* A value of the wrong shape in one place of the sample value v: a string
\* or a mapping where a list is expected, null where an element or a
\* mapping entry is expected.
RECURSIVE MalformedVariants(_)
MalformedVariants(v) ==
    CASE v.t = "array" ->
           {SA, Obj(<<>>)} \cup
           (IF Len(v.a) > 0 /\ v.a[1].t = "object"
            THEN {Arr(<<Null>>), Arr(<<v.a[1], Null>>)}
                 \cup {Arr(<<x>>) : x \in MalformedVariants(v.a[1])}
            ELSE {})
      [] v.t = "object" ->
           UNION {{With(v, k, x) :
                     x \in MalformedVariants(Get(v, k)) \cup
                           (IF k \in MapKeys
                            THEN {With(Get(v, k), e, Null) : e \in KeysOf(Get(v, k))}
                            ELSE {})}
                  : k \in KeysOf(v)}
      [] OTHER -> {}

\* the record with the sections of present, each with its sample value
RecordOf(present) ==
    Obj(SelectSeq([i \in 1..Len(SectionKeys) |-> <<SectionKeys[i], FullSection(SectionKeys[i])>>],
                  LAMBDA kv : kv[1] \in present))

FullRecord == RecordOf(Sections)

\* at most MaxAbsent sections absent, or at most MaxAbsent present, each
\* with its sample value
PresenceRecords ==
    {RecordOf(P) :
       P \in {Q \in SUBSET Sections :
                \/ Cardinality(Q) <= MaxAbsent
                \/ Cardinality(Sections \ Q) <= MaxAbsent}}

\* one section, of an allowed shape, alone in the record
VariedRecords ==
    UNION {{Obj(<<<<k, x>>>>) : x \in ValueVariants(FullSection(k))} : k \in Sections}

\* the values of urgencia: the three levels, other casings and a synonym
Urgencias == {"alta", "media", "baixa", "Alta", "ALTA", "Media", "Baixa", "urgente"}

\* one pain item of each urgencia, after one of the sample urgencia
UrgenciaRecords ==
    {Obj(<<<<"dores_desejos",
             With(FullSection("dores_desejos"), "principais_dores",
                  Arr(<<FullSection("dores_desejos").o[1][2].a[1],
                        Obj(<<<<"descricao", SA>>, <<"impacto", SB>>,
                              <<"urgencia", Str(u)>>>>)>>))>>>>)
       : u \in Urgencias}

\* the records of PresenceRecords with their keys delivered in reverse order
ReorderedRecords ==
    {Obj([i \in 1..Len(r.o) |-> r.o[Len(r.o) + 1 - i]]) : r \in PresenceRecords}

\* an action plan delivered with passo descending, alone and among the nine
\* other sections, and a list of strings delivered in descending order
DescendingPlano ==
    Arr(<<Obj(<<<<"passo", Str("2")>>, <<"acao", SA>>, <<"prazo", SB>>>>),
          Obj(<<<<"passo", Str("1")>>, <<"acao", SB>>, <<"prazo", SA>>>>)>>)

OrderRecords ==
    {Obj(<<<<"plano_acao", DescendingPlano>>>>),
     With(FullRecord, "plano_acao", DescendingPlano),
     Obj(<<<<"escopo", With(FullSection("escopo"), "subnichos", Arr(<<SB, SA>>))>>>>)}

SampleCosts ==
    Obj(<<<<"cpm", SA>>, <<"cpc", SB>>, <<"cpl", SA>>, <<"conversao", SB>>>>)

\* mappings of two entries: a key in camel case before one in lower case,
\* and a name made of digits after one made of letters
MappingRecords ==
    {Obj(<<<<"metricas", With(FullSection("metricas"), "roi_canais", Obj(<<e1, e2>>))>>>>)
       : e1 \in {<<"tikTok", SA>>, <<"meta", SA>>}, e2 \in {<<"google", SB>>, <<"1", SB>>}}
    \cup
    {Obj(<<<<"palavras_chave",
             With(FullSection("palavras_chave"), "custos_plataforma", Obj(<<e1, e2>>))>>>>)
       : e1 \in {<<"tikTok", SampleCosts>>, <<"meta", SampleCosts>>},
         e2 \in {<<"google", SampleCosts>>, <<"1", SampleCosts>>}}

ConformingRecords ==
    PresenceRecords \cup VariedRecords \cup UrgenciaRecords \cup ReorderedRecords
        \cup OrderRecords \cup MappingRecords

\* one section of a wrong shape among the nine others
MalformedRecords ==
    UNION {{With(FullRecord, k, x) : x \in MalformedVariants(FullSection(k))}
           : k \in Sections}

RenderRecords == ConformingRecords \cup MalformedRecords

\* the responses of the submission pipeline: the empty record, the full one,
\* one with only avatar, one with only escopo, and one of a wrong shape
AppRecords ==
    {Obj(<<>>), FullRecord,
     Obj(<<<<"avatar", FullSection("avatar")>>>>),
     Obj(<<<<"escopo", FullSection("escopo")>>>>),
     With(FullRecord, "plano_acao", Obj(<<<<"passo", Str("1")>>>>))}

-----------------------------------------------------------------------------
(* The avatar tabs, script.js:289-296 and 839-861.                          *)

\* the characters of s.toLowerCase(), for the button labels and the names
LowerChars(s) ==
    CASE s \in {"demografia", "Demografia"} ->
           <<"d", "e", "m", "o", "g", "r", "a", "f", "i", "a">>
      [] s \in {"psicografia", "Psicografia"} ->
           <<"p", "s", "i", "c", "o", "g", "r", "a", "f", "i", "a">>
      [] s = "comportamento" ->
           <<"c", "o", "m", "p", "o", "r", "t", "a", "m", "e", "n", "t", "o">>
      [] s = "Comportamento Digital" ->
           <<"c", "o", "m", "p", "o", "r", "t", "a", "m", "e", "n", "t", "o", " ",
             "d", "i", "g", "i", "t", "a", "l">>
      [] s = "grafia" -> <<"g", "r", "a", "f", "i", "a">>
      [] s = "bogus" -> <<"b", "o", "g", "u", "s">>
      [] s = "" -> <<>>

\* String.prototype.includes
Includes(hay, needle) ==
    \E i \in 0..(Len(hay) - Len(needle)) :
        \A j \in 1..Len(needle) : hay[i + j] = needle[j]

RecognizedTabs == {"demografia", "psicografia", "comportamento"}
TabArgs == RecognizedTabs \cup {"bogus", "grafia", "", "Demografia"}

\* the .avatar-tabs .tab-btn elements of the container, in document order
DomButtons(html) ==
    Flatten([i \in 1..Len(html.grid) |-> [v |-> html.grid[i].buttons]])

\* the .avatar-content .tab-content elements of the container
DomContents(html) ==
    Flatten([i \in 1..Len(html.grid) |-> [v |-> html.grid[i].contents]])

\* the class "active" as written by the template
TemplateContentActive(html) ==
    {DomContents(html)[i].id : i \in {j \in 1..Len(DomContents(html)) : DomContents(html)[j].active}}

TemplateBtnActive(html) ==
    {j \in 1..Len(DomButtons(html)) : DomButtons(html)[j].active}

\* script.js:849-852: getElementById(`${tabName}-content`), classList.add
TargetContent(html, tabName) ==
    {DomContents(html)[i].id : i \in {j \in 1..Len(DomContents(html)) : DomContents(html)[j].id = tabName}}

\* script.js:855-860: Array.from(buttons).find(...), classList.add
TargetButton(html, tabName) ==
    LET hits == {j \in 1..Len(DomButtons(html)) :
                   Includes(LowerChars(DomButtons(html)[j].text), LowerChars(tabName))}
    IN IF hits = {} THEN {} ELSE {CHOOSE j \in hits : \A h \in hits : j <= h}

\* a controller that toggles: the name of the active tab switches it off
showAvatarTab_Toggle(tabName) ==
    /\ tabFnDefined
    /\ contentActive' = IF tabName \in contentActive THEN {}
                        ELSE TargetContent(resultsHTML, tabName)
    /\ btnActive' = IF tabName \in contentActive THEN {}
                    ELSE TargetButton(resultsHTML, tabName)
    /\ UNCHANGED <<currentAnalysis, analysisInProgress, request, displayTimer,
                   loadingVisible, resultsVisible, resultsHTML, tabFnDefined,
                   errorNotes, lastDownload, raised, discarded, shareVars, progressVars>>

\* script.js:839-861
showAvatarTab(tabName) ==
    /\ tabFnDefined
    /\ contentActive' = TargetContent(resultsHTML, tabName)
    /\ btnActive' = TargetButton(resultsHTML, tabName)
    /\ UNCHANGED <<currentAnalysis, analysisInProgress, request, displayTimer,
                   loadingVisible, resultsVisible, resultsHTML, tabFnDefined,
                   errorNotes, lastDownload, raised, discarded, shareVars, progressVars>>

ShowAvatarTab == \E tabName \in TabArgs : showAvatarTab(tabName)

-----------------------------------------------------------------------------
(* The submission pipeline, script.js:81-194.                               *)

EmptyHTML == [header |-> <<>>, grid |-> <<>>]

\* a composer that appends to the container instead of replacing it
displayResults_Append(analysis) ==
    \E r \in {generateResultsHTML(analysis)} :
       IF r.ok
       THEN /\ resultsHTML' = [header |-> r.v.header, grid |-> resultsHTML.grid \o r.v.grid]
            /\ contentActive' = TemplateContentActive(r.v)
            /\ btnActive' = TemplateBtnActive(r.v)
            /\ tabFnDefined' = TRUE
            /\ discarded' = IF tabFnDefined THEN <<contentActive>> ELSE <<>>
            /\ UNCHANGED raised
       ELSE /\ raised' = raised \cup {"displayResults"}
            /\ UNCHANGED <<resultsHTML, contentActive, btnActive, tabFnDefined, discarded>>

\* a composer that keeps the flags of the report it replaces
displayResults_CarryOver(analysis) ==
    \E r \in {generateResultsHTML(analysis)} :
       IF r.ok
       THEN /\ resultsHTML' = r.v
            /\ contentActive' = IF tabFnDefined THEN contentActive
                                ELSE TemplateContentActive(r.v)
            /\ btnActive' = IF tabFnDefined THEN btnActive ELSE TemplateBtnActive(r.v)
            /\ tabFnDefined' = TRUE
            /\ discarded' = IF tabFnDefined THEN <<contentActive>> ELSE <<>>
            /\ UNCHANGED raised
       ELSE /\ raised' = raised \cup {"displayResults"}
            /\ UNCHANGED <<resultsHTML, contentActive, btnActive, tabFnDefined, discarded>>

\* script.js:189-194 inside the callback of script.js:170-174, after
\* hideLoading: a raise of generateResultsHTML leaves the container, the
\* tabs and analysisInProgress as they were and ends the callback
displayResults(analysis) ==
    \E r \in {generateResultsHTML(analysis)} :
       IF r.ok
       THEN /\ resultsHTML' = r.v
            /\ contentActive' = TemplateContentActive(r.v)
            /\ btnActive' = TemplateBtnActive(r.v)
            /\ tabFnDefined' = TRUE
            /\ discarded' = IF tabFnDefined THEN <<contentActive>> ELSE <<>>
            /\ UNCHANGED raised
       ELSE /\ raised' = raised \cup {"displayResults"}
            /\ UNCHANGED <<resultsHTML, contentActive, btnActive, tabFnDefined, discarded>>

\* a handler without the test of script.js:84: a submission made while an
\* analysis is in progress starts another one
SubmitBusy_Reenter ==
    /\ analysisInProgress
    /\ loadingVisible' = TRUE
    /\ resultsVisible' = FALSE
    /\ request' = request + 1
    /\ intervals' = Append(intervals, 0)
    /\ UNCHANGED <<currentAnalysis, analysisInProgress, displayTimer, resultsHTML,
                   tabFnDefined, contentActive, btnActive, errorNotes, lastDownload,
                   raised, discarded, shareVars, progress>>

\* script.js:84: a submission while an analysis is in progress returns
SubmitBusy ==
    /\ analysisInProgress
    /\ UNCHANGED vars

\* the values of the field nicho of the form
Nichos == {"", "  ", "fitness", " fitness "}

\* nicho.trim(), on the values of the model
Trim(s) ==
    CASE s = "  " -> ""
      [] s = " fitness " -> "fitness"
      [] OTHER -> s

\* a validation that tests nicho without trimming it: a nicho of spaces is
\* submitted
SubmitBlank_NoTrim ==
    \E nicho \in Nichos :
        /\ ~analysisInProgress
        /\ Trim(nicho) = ""
        /\ IF nicho = ""
           THEN /\ errorNotes < MaxNotes
                /\ errorNotes' = errorNotes + 1
                /\ UNCHANGED <<analysisInProgress, request, loadingVisible, resultsVisible,
                               intervals>>
           ELSE /\ Len(intervals) < MaxIntervals
                /\ analysisInProgress' = TRUE
                /\ loadingVisible' = TRUE
                /\ resultsVisible' = FALSE
                /\ request' = request + 1
                /\ intervals' = Append(intervals, 0)
                /\ UNCHANGED errorNotes
        /\ UNCHANGED <<currentAnalysis, displayTimer, resultsHTML, tabFnDefined,
                       contentActive, btnActive, lastDownload, raised, discarded,
                       shareVars, progress>>

\* script.js:86-93: nicho.trim() is empty
SubmitBlank ==
    \E nicho \in Nichos :
        /\ ~analysisInProgress
        /\ Trim(nicho) = ""
        /\ errorNotes < MaxNotes
        /\ errorNotes' = errorNotes + 1
        /\ UNCHANGED <<currentAnalysis, analysisInProgress, request, displayTimer,
                       loadingVisible, resultsVisible, resultsHTML, tabFnDefined,
                       contentActive, btnActive, lastDownload, raised, discarded,
                       shareVars, progressVars>>

\* script.js:95-100, 113-116, 121-144, 154: the loading view is shown, a new
\* progress interval is started beside those still running, and the fetch is issued
SubmitValid ==
    \E nicho \in Nichos :
        /\ ~analysisInProgress
        /\ Trim(nicho) # ""
        /\ Len(intervals) < MaxIntervals
        /\ analysisInProgress' = TRUE
        /\ loadingVisible' = TRUE
        /\ resultsVisible' = FALSE
        /\ request' = request + 1
        /\ intervals' = Append(intervals, 0)
        /\ UNCHANGED <<currentAnalysis, displayTimer, resultsHTML, tabFnDefined,
                       contentActive, btnActive, errorNotes, lastDownload, raised,
                       discarded, shareVars, progress>>

\* the interval list without its i-th entry
RemoveAt(s, i) == [j \in 1..(Len(s) - 1) |-> IF j < i THEN s[j] ELSE s[j + 1]]

\* script.js:135-143: one firing of a progress interval with a step left: it
\* writes its step to the progress bar and advances.  After its last step its
\* one remaining firing is clearInterval, which touches nothing else, so it
\* leaves the list with that step.  Intervals share one period, so an older
\* one is never behind a younger one.
Tick ==
    \E i \in 1..Len(intervals) :
        /\ i > 1 => intervals[i - 1] > intervals[i]
        /\ progress' = intervals[i] + 1
        /\ intervals' = IF intervals[i] + 1 < ProgressSteps
                        THEN [intervals EXCEPT ![i] = @ + 1]
                        ELSE RemoveAt(intervals, i)
        /\ UNCHANGED <<currentAnalysis, analysisInProgress, request, displayTimer,
                       loadingVisible, resultsVisible, resultsHTML, tabFnDefined,
                       contentActive, btnActive, errorNotes, lastDownload, raised,
                       discarded, shareVars>>

\* a failure handler that reports the failure without hideLoading
FetchFail_NoHide ==
    /\ request > 0
    /\ errorNotes < MaxNotes
    /\ request' = request - 1
    /\ errorNotes' = errorNotes + 1
    /\ analysisInProgress' = FALSE
    /\ UNCHANGED <<currentAnalysis, displayTimer, loadingVisible, resultsVisible,
                   resultsHTML, tabFnDefined, contentActive, btnActive, lastDownload,
                   raised, discarded, shareVars, progressVars>>

\* a failure handler that issues the request again by itself
FetchFail_Retry ==
    /\ request > 0
    /\ errorNotes < MaxNotes
    /\ request' = request
    /\ loadingVisible' = FALSE
    /\ resultsVisible' = TRUE
    /\ errorNotes' = errorNotes + 1
    /\ analysisInProgress' = FALSE
    /\ UNCHANGED <<currentAnalysis, displayTimer, resultsHTML, tabFnDefined,
                   contentActive, btnActive, lastDownload, raised, discarded,
                   shareVars, progressVars>>

\* script.js:162-164, 176-181: the fetch rejects, the response is not ok or
\* its body does not parse
FetchFail ==
    /\ request > 0
    /\ errorNotes < MaxNotes
    /\ request' = request - 1
    /\ loadingVisible' = FALSE
    /\ resultsVisible' = TRUE
    /\ errorNotes' = errorNotes + 1
    /\ analysisInProgress' = FALSE
    /\ UNCHANGED <<currentAnalysis, displayTimer, resultsHTML, tabFnDefined,
                   contentActive, btnActive, lastDownload, raised, discarded,
                   shareVars, progressVars>>

\* script.js:166-174: the response parses to result
FetchOk ==
    \E result \in AppRecords :
        /\ request > 0
        /\ request' = request - 1
        /\ currentAnalysis' = result
        /\ displayTimer' = Append(displayTimer, result)
        /\ UNCHANGED <<analysisInProgress, loadingVisible, resultsVisible,
                       resultsHTML, tabFnDefined, contentActive, btnActive,
                       errorNotes, lastDownload, raised, discarded,
                       shareVars, progressVars>>

\* script.js:170: the timeout is set for 16000 ms once the response is in, the
\* interval of the same submission fires every 2000 ms from the submission, so
\* its eight writes are over when the timeout fires
WritesDone == intervals = <<>>

\* a callback whose composer fills an empty escopo into the stored record
DisplayTimeout_Filling ==
    /\ displayTimer # <<>>
    /\ WritesDone
    /\ displayTimer' = Tail(displayTimer)
    /\ loadingVisible' = FALSE
    /\ resultsVisible' = TRUE
    /\ displayResults(displayTimer[1])
    /\ analysisInProgress' =
         IF generateResultsHTML(displayTimer[1]).ok THEN FALSE ELSE analysisInProgress
    /\ currentAnalysis' = With(currentAnalysis, "escopo", Obj(<<>>))
    /\ UNCHANGED <<request, errorNotes, lastDownload, shareVars, progressVars>>

\* script.js:170-174: the timeout fires
DisplayTimeout ==
    /\ displayTimer # <<>>
    /\ WritesDone
    /\ displayTimer' = Tail(displayTimer)
    /\ loadingVisible' = FALSE
    /\ resultsVisible' = TRUE
    /\ displayResults(displayTimer[1])
    /\ analysisInProgress' =
         IF generateResultsHTML(displayTimer[1]).ok THEN FALSE ELSE analysisInProgress
    /\ UNCHANGED <<currentAnalysis, request, errorNotes, lastDownload,
                   shareVars, progressVars>>

\* the sections of the stored record that the displayed report shows
ShownRecord ==
    IF currentAnalysis.t = "object"
    THEN Obj(SelectSeq(currentAnalysis.o,
                       LAMBDA kv : \E i \in 1..Len(resultsHTML.grid) :
                                      resultsHTML.grid[i].sec = kv[1]))
    ELSE currentAnalysis

\* the clock readings of Date.now() and new Date()
Times == {1, 2}

\* a download that serializes what the displayed report shows
DownloadReport_FromView ==
    IF ~Truthy(currentAnalysis)
    THEN /\ errorNotes < MaxNotes
         /\ errorNotes' = errorNotes + 1
         /\ UNCHANGED <<currentAnalysis, analysisInProgress, request, displayTimer,
                        loadingVisible, resultsVisible, resultsHTML, tabFnDefined,
                        contentActive, btnActive, lastDownload, raised, discarded,
                        shareVars, progressVars>>
    ELSE \E now \in Times :
           \E r \in {generateComprehensiveReport(ShownRecord, now)} :
              /\ lastDownload' =
                   IF r.ok
                   THEN <<[name |-> <<"analise-completa-avatar-", ToString(now), ".txt">>,
                           data |-> r.v]>>
                   ELSE lastDownload
              /\ raised' = IF r.ok THEN raised ELSE raised \cup {"downloadReport"}
              /\ UNCHANGED <<currentAnalysis, analysisInProgress, request, displayTimer,
                             loadingVisible, resultsVisible, resultsHTML, tabFnDefined,
                             contentActive, btnActive, errorNotes, discarded,
                             shareVars, progressVars>>

\* script.js:864-884; a raise of generateComprehensiveReport emits no file
DownloadReport ==
    IF ~Truthy(currentAnalysis)
    THEN /\ errorNotes < MaxNotes
         /\ errorNotes' = errorNotes + 1
         /\ UNCHANGED <<currentAnalysis, analysisInProgress, request, displayTimer,
                        loadingVisible, resultsVisible, resultsHTML, tabFnDefined,
                        contentActive, btnActive, lastDownload, raised, discarded,
                        shareVars, progressVars>>
    ELSE \E now \in Times :
           \E r \in {generateComprehensiveReport(currentAnalysis, now)} :
              /\ lastDownload' =
                   IF r.ok
                   THEN <<[name |-> <<"analise-completa-avatar-", ToString(now), ".txt">>,
                           data |-> r.v]>>
                   ELSE lastDownload
              /\ raised' = IF r.ok THEN raised ELSE raised \cup {"downloadReport"}
              /\ UNCHANGED <<currentAnalysis, analysisInProgress, request, displayTimer,
                             loadingVisible, resultsVisible, resultsHTML, tabFnDefined,
                             contentActive, btnActive, errorNotes, discarded,
                             shareVars, progressVars>>

-----------------------------------------------------------------------------
(* Sharing, script.js:969-983.                                              *)

\* the state of the rest of the application
coreVars == <<currentAnalysis, analysisInProgress, request, displayTimer,
              loadingVisible, resultsVisible, resultsHTML, tabFnDefined,
              contentActive, btnActive, errorNotes, lastDownload, raised, discarded,
              progressVars>>

\* window.location.href
PageRef == "location.href"

\* a share that copies the link without probing the host
ShareResults_NoProbe ==
    /\ clipboardWrites < MaxShares
    /\ clipboardWrites' = clipboardWrites + 1
    /\ UNCHANGED <<coreVars, nativeShare, shareCalls, clipboard, copyNotes>>

\* script.js:969-983: navigator.share when the host has it, otherwise
\* navigator.clipboard.writeText(url), whose promise settles later
ShareResults ==
    IF nativeShare
    THEN /\ shareCalls < MaxShares
         /\ shareCalls' = shareCalls + 1
         /\ UNCHANGED <<coreVars, nativeShare, clipboardWrites, clipboard, copyNotes>>
    ELSE /\ clipboardWrites < MaxShares
         /\ clipboardWrites' = clipboardWrites + 1
         /\ UNCHANGED <<coreVars, nativeShare, shareCalls, clipboard, copyNotes>>

\* script.js:979-981: the promise of writeText is fulfilled and its then
\* callback shows the success notification
ClipboardWritten ==
    /\ clipboardWrites > 0
    /\ copyNotes < MaxShares
    /\ clipboardWrites' = clipboardWrites - 1
    /\ clipboard' = <<PageRef>>
    /\ copyNotes' = copyNotes + 1
    /\ UNCHANGED <<coreVars, nativeShare, shareCalls>>

\* the promise of writeText is rejected (the host refuses the write): the
\* then callback of script.js:979 does not run and nothing handles the rejection
ClipboardRefused ==
    /\ clipboardWrites > 0
    /\ clipboardWrites' = clipboardWrites - 1
    /\ UNCHANGED <<coreVars, nativeShare, shareCalls, clipboard, copyNotes>>

Init ==
    /\ currentAnalysis = Null
    /\ analysisInProgress = FALSE
    /\ request = 0
    /\ displayTimer = <<>>
    /\ loadingVisible = FALSE
    /\ resultsVisible = FALSE
    /\ resultsHTML = EmptyHTML
    /\ tabFnDefined = FALSE
    /\ contentActive = {}
    /\ btnActive = {}
    /\ errorNotes = 0
    /\ lastDownload = <<>>
    /\ raised = {}
    /\ discarded = <<>>
    /\ nativeShare = FALSE
    /\ shareCalls = 0
    /\ clipboardWrites = 0
    /\ clipboard = <<>>
    /\ copyNotes = 0
    /\ intervals = <<>>
    /\ progress = 0

Next ==
    \/ SubmitBusy
    \/ SubmitBlank
    \/ SubmitValid
    \/ Tick
    \/ FetchFail
    \/ FetchOk
    \/ DisplayTimeout
    \/ ShowAvatarTab
    \/ DownloadReport

Spec == Init /\ [][Next]_vars

\* the submission pipeline and the share button, on a host with or without
\* navigator.share
InitShare ==
    /\ currentAnalysis = Null
    /\ analysisInProgress = FALSE
    /\ request = 0
    /\ displayTimer = <<>>
    /\ loadingVisible = FALSE
    /\ resultsVisible = FALSE
    /\ resultsHTML = EmptyHTML
    /\ tabFnDefined = FALSE
    /\ contentActive = {}
    /\ btnActive = {}
    /\ errorNotes = 0
    /\ lastDownload = <<>>
    /\ raised = {}
    /\ discarded = <<>>
    /\ nativeShare \in BOOLEAN
    /\ shareCalls = 0
    /\ clipboardWrites = 0
    /\ clipboard = <<>>
    /\ copyNotes = 0
    /\ intervals = <<>>
    /\ progress = 0

NextShare ==
    \/ SubmitBusy
    \/ SubmitBlank
    \/ SubmitValid
    \/ Tick
    \/ FetchFail
    \/ FetchOk
    \/ DisplayTimeout
    \/ ShareResults
    \/ ClipboardWritten
    \/ ClipboardRefused

SpecShare == InitShare /\ [][NextShare]_vars

\* the submission pipeline and the tabs under the scheduling the host
\* guarantees: a fetch in flight is eventually fulfilled or rejected, and an
\* interval or a timeout set eventually fires
NextLive ==
    \/ SubmitBusy
    \/ SubmitBlank
    \/ SubmitValid
    \/ Tick
    \/ FetchFail
    \/ FetchOk
    \/ DisplayTimeout
    \/ ShowAvatarTab

\* the step of DisplayTimeout, by what it does to the timeouts
TimeoutFires ==
    /\ displayTimer # <<>>
    /\ WritesDone
    /\ displayTimer' = Tail(displayTimer)

SpecLive ==
    /\ Init
    /\ [][NextLive]_vars
    /\ WF_vars(FetchOk \/ FetchFail)
    /\ WF_vars(Tick)
    /\ WF_displayTimer(TimeoutFires)

\* accepted submissions, their outcomes and the tabs: every error
\* notification is that of a failed request
NextOutcome ==
    \/ SubmitBusy
    \/ SubmitValid
    \/ Tick
    \/ FetchFail
    \/ FetchOk
    \/ DisplayTimeout
    \/ ShowAvatarTab

SpecOutcome == Init /\ [][NextOutcome]_vars

\* the renderers applied to every record of RenderRecords
InitRender ==
    /\ currentAnalysis \in RenderRecords
    /\ analysisInProgress = FALSE
    /\ request = 0
    /\ displayTimer = <<>>
    /\ loadingVisible = FALSE
    /\ resultsVisible = FALSE
    /\ resultsHTML = EmptyHTML
    /\ tabFnDefined = FALSE
    /\ contentActive = {}
    /\ btnActive = {}
    /\ errorNotes = 0
    /\ lastDownload = <<>>
    /\ raised = {}
    /\ discarded = <<>>
    /\ nativeShare = FALSE
    /\ shareCalls = 0
    /\ clipboardWrites = 0
    /\ clipboard = <<>>
    /\ copyNotes = 0
    /\ intervals = <<>>
    /\ progress = 0

\* hideLoading(); displayResults(currentAnalysis), as script.js:171-172,
\* applied once to the record
RenderStored ==
    /\ ~resultsVisible
    /\ displayResults(currentAnalysis)
    /\ loadingVisible' = FALSE
    /\ resultsVisible' = TRUE
    /\ UNCHANGED <<currentAnalysis, analysisInProgress, request, displayTimer,
                   errorNotes, lastDownload, shareVars, progressVars>>

NextRender ==
    \/ RenderStored
    \/ DownloadReport

SpecRender == InitRender /\ [][NextRender]_vars

-----------------------------------------------------------------------------
(* Reading the rendered report and the record.                              *)

HasBlock(html, k) == \E i \in 1..Len(html.grid) : html.grid[i].sec = k

BlockOf(html, k) == html.grid[CHOOSE i \in 1..Len(html.grid) : html.grid[i].sec = k]

\* the items of the field labelled label in the block of section k
FieldItems(html, k, label) ==
    LET b == BlockOf(html, k)
    IN b.fields[CHOOSE i \in 1..Len(b.fields) : b.fields[i].label = label].items

\* record.k1?.k2 ... for a path of keys
RECURSIVE GetPath(_, _)
GetPath(v, path) ==
    IF Len(path) = 0 THEN v ELSE GetPath(OptGet(v, Head(path)), Tail(path))

IsPlaceholderItem(it) == it.lines = <<<<Placeholder>>>>

\* the list fields of the sections: <<section, path, label of the field>>
ListFields ==
    {<<"escopo", <<"subnichos">>, "Subnichos Identificados:">>,
     <<"avatar", <<"demografia", "profissoes">>, "Profissoes Principais:">>,
     <<"avatar", <<"psicografia", "valores">>, "Valores Principais:">>,
     <<"avatar", <<"psicografia", "aspiracoes">>, "Aspiracoes:">>,
     <<"avatar", <<"psicografia", "medos">>, "Medos Principais:">>,
     <<"avatar", <<"psicografia", "frustracoes">>, "Frustracoes:">>,
     <<"avatar", <<"comportamento_digital", "plataformas">>, "Plataformas Principais:">>,
     <<"avatar", <<"comportamento_digital", "conteudo_preferido">>, "Conteudo Preferido:">>,
     <<"avatar", <<"comportamento_digital", "influenciadores">>, "Influenciadores que Seguem:">>,
     <<"dores_desejos", <<"principais_dores">>, "Principais Dores Identificadas:">>,
     <<"dores_desejos", <<"obstaculos">>, "Obstaculos Percebidos:">>,
     <<"concorrencia", <<"diretos">>, "Concorrentes Diretos:">>,
     <<"concorrencia", <<"indiretos">>, "Concorrentes Indiretos:">>,
     <<"concorrencia", <<"gaps_mercado">>, "Gaps de Mercado Identificados:">>,
     <<"mercado", <<"tendencias_alta">>, "Tendencias em Alta:">>,
     <<"mercado", <<"tendencias_baixa">>, "Tendencias em Baixa:">>,
     <<"mercado", <<"sazonalidade", "melhores_meses">>, "Melhores Meses:">>,
     <<"mercado", <<"sazonalidade", "piores_meses">>, "Piores Meses:">>,
     <<"palavras_chave", <<"principais">>, "Principais Palavras-Chave:">>,
     <<"metricas", <<"funil_conversao">>, "Funil de Conversao:">>,
     <<"voz_mercado", <<"objecoes">>, "Principais Objecoes e Como Contorna-las:">>,
     <<"voz_mercado", <<"linguagem", "termos">>, "Termos Tecnicos:">>,
     <<"voz_mercado", <<"linguagem", "girias">>, "Girias e Expressoes:">>,
     <<"voz_mercado", <<"linguagem", "gatilhos">>, "Gatilhos Emocionais:">>,
     <<"voz_mercado", <<"crencas_limitantes">>, "Crencas Limitantes Comuns:">>}

\* the list fields of the items of a list:
\* <<section, path of the list, label of the list, key, line of the item>>
ItemListFields ==
    {<<"concorrencia", <<"diretos">>, "Concorrentes Diretos:", "forcas", 4>>,
     <<"concorrencia", <<"diretos">>, "Concorrentes Diretos:", "fraquezas", 5>>}

\* the scalar fields of the sections: <<section, path, label of the field>>
ScalarFields ==
    {<<"escopo", <<"nicho_principal">>, "Nicho Principal:">>,
     <<"escopo", <<"produto_ideal">>, "Produto Ideal:">>,
     <<"escopo", <<"proposta_valor">>, "Proposta de Valor Unica:">>,
     <<"avatar", <<"demografia", "faixa_etaria">>, "Faixa Etaria:">>,
     <<"avatar", <<"demografia", "genero">>, "Genero:">>,
     <<"avatar", <<"demografia", "localizacao">>, "Localizacao:">>,
     <<"avatar", <<"demografia", "renda">>, "Renda:">>,
     <<"avatar", <<"demografia", "escolaridade">>, "Escolaridade:">>,
     <<"avatar", <<"psicografia", "estilo_vida">>, "Estilo de Vida:">>,
     <<"avatar", <<"comportamento_digital", "horarios_pico">>, "Horarios de Pico:">>,
     <<"dores_desejos", <<"estado_atual">>, "Estado Atual:">>,
     <<"dores_desejos", <<"estado_desejado">>, "Estado Desejado:">>,
     <<"dores_desejos", <<"sonho_secreto">>, "Sonho Secreto:">>,
     <<"mercado", <<"tam">>, "TAM (Total Addressable Market)">>,
     <<"mercado", <<"sam">>, "SAM (Serviceable Addressable Market)">>,
     <<"mercado", <<"som">>, "SOM (Serviceable Obtainable Market)">>,
     <<"mercado", <<"volume_busca">>, "Volume de Busca Mensal:">>,
     <<"metricas", <<"cac_medio">>, "CAC Medio">>,
     <<"metricas", <<"ltv_medio">>, "LTV Medio">>,
     <<"metricas", <<"ltv_cac_ratio">>, "LTV:CAC Ratio">>,
     <<"projecoes", <<"conservador", "conversao">>, "Conservador Conversao:">>,
     <<"projecoes", <<"conservador", "faturamento">>, "Conservador Faturamento:">>,
     <<"projecoes", <<"conservador", "roi">>, "Conservador ROI:">>,
     <<"projecoes", <<"realista", "conversao">>, "Realista Conversao:">>,
     <<"projecoes", <<"realista", "faturamento">>, "Realista Faturamento:">>,
     <<"projecoes", <<"realista", "roi">>, "Realista ROI:">>,
     <<"projecoes", <<"otimista", "conversao">>, "Otimista Conversao:">>,
     <<"projecoes", <<"otimista", "faturamento">>, "Otimista Faturamento:">>,
     <<"projecoes", <<"otimista", "roi">>, "Otimista ROI:">>}

\* the scalar fields of the items of a list:
\* <<section, path of the list, label of the list, key, line of the item>>
ItemScalarFields ==
    {<<"dores_desejos", <<"principais_dores">>, "Principais Dores Identificadas:", "descricao", 1>>,
     <<"dores_desejos", <<"principais_dores">>, "Principais Dores Identificadas:", "impacto", 2>>,
     <<"dores_desejos", <<"principais_dores">>, "Principais Dores Identificadas:", "urgencia", 3>>,
     <<"concorrencia", <<"diretos">>, "Concorrentes Diretos:", "nome", 1>>,
     <<"concorrencia", <<"diretos">>, "Concorrentes Diretos:", "preco", 2>>,
     <<"concorrencia", <<"diretos">>, "Concorrentes Diretos:", "usp", 3>>,
     <<"concorrencia", <<"indiretos">>, "Concorrentes Indiretos:", "nome", 1>>,
     <<"concorrencia", <<"indiretos">>, "Concorrentes Indiretos:", "tipo", 2>>,
     <<"palavras_chave", <<"principais">>, "Principais Palavras-Chave:", "termo", 1>>,
     <<"palavras_chave", <<"principais">>, "Principais Palavras-Chave:", "volume", 2>>,
     <<"palavras_chave", <<"principais">>, "Principais Palavras-Chave:", "cpc", 3>>,
     <<"palavras_chave", <<"principais">>, "Principais Palavras-Chave:", "dificuldade", 4>>,
     <<"palavras_chave", <<"principais">>, "Principais Palavras-Chave:", "intencao", 5>>,
     <<"voz_mercado", <<"objecoes">>, "Principais Objecoes e Como Contorna-las:", "objecao", 1>>,
     <<"voz_mercado", <<"objecoes">>, "Principais Objecoes e Como Contorna-las:", "contorno", 2>>,
     <<"plano_acao", <<>>, "Plano de Acao", "passo", 1>>,
     <<"plano_acao", <<>>, "Plano de Acao", "acao", 2>>,
     <<"plano_acao", <<>>, "Plano de Acao", "prazo", 3>>}

\* the last piece of a line is a placeholder
EndsWithPlaceholder(line) == Len(line) > 0 /\ line[Len(line)] \in {Placeholder, NA}

\* a section of the stored record is present and its field at path is absent
AbsentIn(k, path) ==
    /\ HasKey(currentAnalysis, k)
    /\ GetPath(Get(currentAnalysis, k), path) = Undef

\* every item of the list at path of section k that lacks key shows a
\* placeholder in line n of its rendered item
ItemsShowPlaceholder(k, path, label, key, n) ==
    LET l == IF HasKey(currentAnalysis, k)
             THEN GetPath(Get(currentAnalysis, k), path) ELSE Undef
    IN (IsArray(l) /\ Len(l.a) > 0) =>
         \A i \in 1..Len(l.a) :
             Get(l.a[i], key) = Undef =>
                 EndsWithPlaceholder(FieldItems(resultsHTML, k, label)[i].lines[n])

\* the pieces of text and the class marks of the report
TextPieces(html) ==
    UNION {UNION {UNION {UNION {{it.lines[l][q] : q \in 1..Len(it.lines[l])}
                                : l \in 1..Len(it.lines)}
                         \cup {it.marks[q] : q \in 1..Len(it.marks)}
                         : it \in {html.grid[b].fields[f].items[j]
                                     : j \in 1..Len(html.grid[b].fields[f].items)}}
                  : f \in 1..Len(html.grid[b].fields)}
           : b \in 1..Len(html.grid)}

\* the stored record, of an allowed shape, has been composed into the container
Rendered == resultsVisible /\ currentAnalysis \in ConformingRecords

-----------------------------------------------------------------------------
(* Claims *)

\* C1: for every record of the allowed shapes and every section key that is
\* absent, composing does not raise, the report has no block of that section,
\* and the header block and the blocks of the present sections are emitted.
C1_AbsentSectionOmitted ==
    Rendered =>
        /\ "displayResults" \notin raised
        /\ resultsHTML.header = <<ResultsHeader>>
        /\ \A k \in Sections :
             HasKey(currentAnalysis, k) <=> HasBlock(resultsHTML, k)

C1_Witness ==
    /\ Rendered
    /\ ~HasKey(currentAnalysis, "mercado")
    /\ HasKey(currentAnalysis, "escopo")
    /\ HasBlock(resultsHTML, "escopo")
    /\ resultsHTML.header = <<ResultsHeader>>

\* C2: in every present section, every list field that is absent is rendered
\* as exactly one placeholder item, never as an empty collection and never as
\* the text "undefined"; this includes the list fields forcas and fraquezas
\* of the items of concorrencia.diretos.
C2_AbsentListOnePlaceholder ==
    Rendered =>
        /\ \A f \in ListFields :
             AbsentIn(f[1], f[2]) =>
                 LET its == FieldItems(resultsHTML, f[1], f[3])
                 IN Len(its) = 1 /\ IsPlaceholderItem(its[1])
        /\ \A f \in ItemListFields :
             ItemsShowPlaceholder(f[1], f[2], f[3], f[4], f[5])

\* C3: in every present section, every scalar field that is absent (those of
\* the items of its lists included) shows placeholder text, and the texts
\* "undefined" and "null" appear nowhere in the report.
C3_AbsentScalarPlaceholder ==
    Rendered =>
        /\ \A f \in ScalarFields :
             AbsentIn(f[1], f[2]) =>
                 LET its == FieldItems(resultsHTML, f[1], f[3])
                 IN Len(its) = 1 /\ EndsWithPlaceholder(its[1].lines[1])
        /\ \A f \in ItemScalarFields :
             ItemsShowPlaceholder(f[1], f[2], f[3], f[4], f[5])
        /\ TextPieces(resultsHTML) \cap {"undefined", "null"} = {}

\* the tab state: the content blocks and the buttons flagged active
TabState == <<contentActive, btnActive>>

\* an avatar section is in the container
AvatarRendered == tabFnDefined /\ HasBlock(resultsHTML, "avatar")

\* the button of a recognized tab, by its place in the avatar-tabs row
ButtonOf(tabName) ==
    CASE tabName = "demografia" -> 1
      [] tabName = "psicografia" -> 2
      [] tabName = "comportamento" -> 3

\* C4: showAvatarTab with a name that is none of demografia, psicografia,
\* comportamento leaves the active content block and the active button as
\* they were before the call
C4_UnrecognizedTabNoOp ==
    [][\A tabName \in TabArgs \ RecognizedTabs :
          (AvatarRendered /\ showAvatarTab(tabName)) => TabState' = TabState]_vars

\* C5: on a rendered avatar section, after any sequence of showAvatarTab
\* calls with any argument, exactly one of the three content blocks is
\* flagged active
C5_ExactlyOneContentActive ==
    AvatarRendered =>
        /\ contentActive \subseteq RecognizedTabs
        /\ Cardinality(contentActive) = 1

\* C6: showAvatarTab with the name of the tab that is already active (its
\* content block and its button flagged active) leaves the tab state
\* unchanged, for each of the three recognized tabs
C6_ReselectActiveNoOp ==
    [][\A tabName \in RecognizedTabs :
          (/\ AvatarRendered
           /\ tabName \in contentActive
           /\ ButtonOf(tabName) \in btnActive
           /\ showAvatarTab(tabName)) => TabState' = TabState]_vars

\* a tab other than the initial one is active, content block and button
C6_Witness ==
    /\ AvatarRendered
    /\ contentActive = {"comportamento"}
    /\ btnActive = {ButtonOf("comportamento")}

\* C7: whenever displayResults composes a report with an avatar section,
\* whatever tab was active in the report it replaces, the tab state of the
\* new report is demografia
C7_RecomposeResetsTab ==
    [][(/\ DisplayTimeout
        /\ generateResultsHTML(displayTimer[1]).ok
        /\ HasKey(displayTimer[1], "avatar"))
       => (/\ HasBlock(resultsHTML', "avatar")
           /\ contentActive' = {"demografia"}
           /\ btnActive' = {ButtonOf("demografia")})]_vars

\* a report replaced one whose tab was psicografia, and shows demografia
C7_Witness ==
    /\ AvatarRendered
    /\ discarded = <<{"psicografia"}>>
    /\ contentActive = {"demografia"}
    /\ btnActive = {ButtonOf("demografia")}

\* the document of the last download
Exported == lastDownload[1].data

\* section k has a header line in the document
HasHeader(doc, k) == \E i \in 1..Len(doc) : doc[i].kind = "header" /\ doc[i].sec = k

\* C8: for every record, the record without sections included,
\* generateComprehensiveReport emits a header for each of the ten sections,
\* and the fields under the header of an absent section all read N/A
C8_ExportTenHeaders ==
    (lastDownload # <<>> /\ currentAnalysis \in ConformingRecords) =>
        \A k \in Sections :
            /\ HasHeader(Exported, k)
            /\ ~HasKey(currentAnalysis, k) =>
                   \A i \in 1..Len(Exported) :
                       (Exported[i].sec = k /\ Exported[i].kind = "field")
                           => Exported[i].text = <<NA>>

\* the fields of a record: section.field, or section.group.field where the
\* field of the section is itself an object
FieldPaths(rec) ==
    UNION {LET s == Get(rec, k)
           IN IF s.t # "object" THEN {<<k>>}
              ELSE UNION {IF Get(s, f).t = "object"
                          THEN {<<k, f, g>> : g \in KeysOf(Get(s, f))}
                          ELSE {<<k, f>>}
                          : f \in KeysOf(s)}
           : k \in KeysOf(rec)}

\* the record without the field at path
RECURSIVE RemovePath(_, _)
RemovePath(v, path) ==
    IF Len(path) = 1 THEN With(v, Head(path), Undef)
    ELSE With(v, Head(path), RemovePath(Get(v, Head(path)), Tail(path)))

\* the document but for its generation-timestamp line
Undated(doc) == SelectSeq(doc, LAMBDA l : l.kind # "generated")

\* the structured view displays the field: the report differs without it
ViewShows(path) ==
    generateResultsHTML(RemovePath(currentAnalysis, path)).v # resultsHTML

\* the exporter serializes the field: the document differs without it
ExportShows(path) ==
    Undated(generateComprehensiveReport(RemovePath(currentAnalysis, path), 1).v)
        # Undated(Exported)

\* C9: the exporter serializes the same field set as the structured view:
\* a field of the record is displayed by a section renderer exactly when it
\* appears in the output of generateComprehensiveReport
C9_ExportSameFieldSet ==
    (Rendered /\ lastDownload # <<>>) =>
        \A path \in FieldPaths(currentAnalysis) : ViewShows(path) <=> ExportShows(path)

\* C10: when one section of the record has an incompatible shape, composing
\* the report completes and the other nine sections are rendered
C10_MalformedSectionFailsClosed ==
    (resultsVisible /\ currentAnalysis \in MalformedRecords) =>
        /\ "displayResults" \notin raised
        /\ resultsHTML.header = <<ResultsHeader>>
        /\ Cardinality({k \in Sections : HasBlock(resultsHTML, k)}) >= 9

\* the scalar and list fields the exporter serializes:
\* <<section, sub-heading, path in the record, label of the line>>
ExportFields ==
    {<<"escopo", "", <<"escopo", "nicho_principal">>, "Nicho Principal: ">>,
     <<"escopo", "", <<"escopo", "subnichos">>, "Subnichos: ">>,
     <<"escopo", "", <<"escopo", "produto_ideal">>, "Produto Ideal: ">>,
     <<"escopo", "", <<"escopo", "proposta_valor">>, "Proposta de Valor: ">>,
     <<"avatar", "", <<"avatar", "demografia", "faixa_etaria">>, "- Faixa Etaria: ">>,
     <<"avatar", "", <<"avatar", "demografia", "genero">>, "- Genero: ">>,
     <<"avatar", "", <<"avatar", "demografia", "localizacao">>, "- Localizacao: ">>,
     <<"avatar", "", <<"avatar", "demografia", "renda">>, "- Renda: ">>,
     <<"avatar", "", <<"avatar", "demografia", "escolaridade">>, "- Escolaridade: ">>,
     <<"avatar", "", <<"avatar", "demografia", "profissoes">>, "- Profissoes: ">>,
     <<"avatar", "", <<"avatar", "psicografia", "valores">>, "- Valores: ">>,
     <<"avatar", "", <<"avatar", "psicografia", "estilo_vida">>, "- Estilo de Vida: ">>,
     <<"avatar", "", <<"avatar", "psicografia", "aspiracoes">>, "- Aspiracoes: ">>,
     <<"avatar", "", <<"avatar", "psicografia", "medos">>, "- Medos: ">>,
     <<"avatar", "", <<"avatar", "psicografia", "frustracoes">>, "- Frustracoes: ">>,
     <<"avatar", "", <<"avatar", "comportamento_digital", "plataformas">>, "- Plataformas: ">>,
     <<"avatar", "", <<"avatar", "comportamento_digital", "horarios_pico">>, "- Horarios de Pico: ">>,
     <<"avatar", "", <<"avatar", "comportamento_digital", "conteudo_preferido">>,
       "- Conteudo Preferido: ">>,
     <<"dores_desejos", "", <<"dores_desejos", "estado_atual">>, "Estado Atual: ">>,
     <<"dores_desejos", "", <<"dores_desejos", "estado_desejado">>, "Estado Desejado: ">>,
     <<"dores_desejos", "", <<"dores_desejos", "sonho_secreto">>, "Sonho Secreto: ">>,
     <<"mercado", "", <<"mercado", "tam">>, "TAM: ">>,
     <<"mercado", "", <<"mercado", "sam">>, "SAM: ">>,
     <<"mercado", "", <<"mercado", "som">>, "SOM: ">>,
     <<"mercado", "", <<"mercado", "volume_busca">>, "Volume de Busca: ">>,
     <<"metricas", "", <<"metricas", "cac_medio">>, "CAC Medio: ">>,
     <<"metricas", "", <<"metricas", "ltv_medio">>, "LTV Medio: ">>,
     <<"metricas", "", <<"metricas", "ltv_cac_ratio">>, "LTV:CAC Ratio: ">>}
    \cup
    {<<"projecoes", c[1], <<"projecoes", c[2], f[1]>>, f[2]>> :
       c \in {<<"CONSERVADOR:", "conservador">>, <<"REALISTA:", "realista">>,
              <<"OTIMISTA:", "otimista">>},
       f \in {<<"conversao", "- Conversao: ">>, <<"faturamento", "- Faturamento: ">>,
              <<"roi", "- ROI: ">>}}

\* the first field line labelled label of section sec, after the sub-heading
\* sub when one is named
ExportLine(doc, sec, sub, label) ==
    LET start == IF sub = "" THEN 0
                 ELSE CHOOSE i \in 1..Len(doc) :
                        doc[i].kind = "sub" /\ doc[i].sec = sec /\ doc[i].label = sub
        hits == {i \in (start + 1)..Len(doc) :
                   doc[i].kind = "field" /\ doc[i].sec = sec /\ doc[i].label = label}
    IN doc[CHOOSE i \in hits : \A h \in hits : i <= h]

\* the pieces of text of the document
ExportPieces(doc) ==
    UNION {{doc[i].text[q] : q \in 1..Len(doc[i].text)} : i \in 1..Len(doc)}

\* the stored record is of an allowed shape and a download has been asked
DownloadAsked ==
    /\ currentAnalysis \in ConformingRecords
    /\ (lastDownload # <<>> \/ "downloadReport" \in raised)

\* C11: for every record, with sections and nested keys absent at any depth,
\* generateComprehensiveReport does not raise, every absent scalar or list
\* field it serializes reads N/A, and the strings undefined and null never
\* appear in the exported text
C11_ExportMissingFieldPolicy ==
    DownloadAsked =>
        /\ "downloadReport" \notin raised
        /\ lastDownload # <<>>
        /\ \A f \in ExportFields :
               IsNullish(GetPath(currentAnalysis, f[3]))
                   => ExportLine(Exported, f[1], f[2], f[4]).text = <<NA>>
        /\ IsNullish(Get(currentAnalysis, "plano_acao"))
               => \E i \in 1..Len(Exported) :
                      /\ Exported[i].sec = "plano_acao"
                      /\ Exported[i].kind = "field"
                      /\ Exported[i].text = <<NA>>
        /\ ExportPieces(Exported) \cap {"undefined", "null"} = {}

\* the lines of the document that carry the generation timestamp
GeneratedLines(doc) == {i \in 1..Len(doc) : doc[i].kind = "generated"}

\* C12: two calls of generateComprehensiveReport on the same record give
\* outputs identical everywhere but the one generation-timestamp line; no
\* other part of the output depends on anything but the record
C12_ExportDeterministic ==
    lastDownload # <<>> =>
        \A now \in Times :
            \A r \in {generateComprehensiveReport(currentAnalysis, now)} :
                /\ r.ok
                /\ Len(r.v) = Len(Exported)
                /\ Cardinality(GeneratedLines(Exported)) = 1
                /\ \A i \in 1..Len(Exported) :
                       r.v[i] # Exported[i] => i \in GeneratedLines(Exported)

\* the full record was exported at one clock reading, the page has changed
\* since, and a call at another reading gives another document
C12_Witness ==
    /\ lastDownload # <<>>
    /\ currentAnalysis = FullRecord
    /\ resultsVisible
    /\ \E now \in Times :
           generateComprehensiveReport(currentAnalysis, now).v # Exported

\* the three severity levels of the style sheet
SeverityLevels == {"alta", "media", "baixa"}

\* the severity markers the pain item it carries
SeverityMarkers(it) == {it.marks[q] : q \in 1..Len(it.marks)} \cap SeverityLevels

\* the pain items of the record and of the report
PainsOf(rec) == GetPath(rec, <<"dores_desejos", "principais_dores">>)
PainItems == FieldItems(resultsHTML, "dores_desejos", "Principais Dores Identificadas:")

\* C13: a pain item with urgencia alta carries the severity marker alta and
\* no other; an item whose urgencia is none of the three literals alta,
\* media, baixa (another casing, a synonym, absent) shows its value verbatim
\* and carries none of the three severity markers, without error
C13_UrgenciaSeverity ==
    (Rendered /\ IsArray(PainsOf(currentAnalysis)) /\ Len(PainsOf(currentAnalysis).a) > 0) =>
        /\ "displayResults" \notin raised
        /\ \A i \in 1..Len(PainsOf(currentAnalysis).a) :
               \A u \in {Get(PainsOf(currentAnalysis).a[i], "urgencia")} :
                   /\ u = Str("alta") => SeverityMarkers(PainItems[i]) = {"alta"}
                   /\ (u.t # "string" \/ u.s \notin SeverityLevels) =>
                          /\ SeverityMarkers(PainItems[i]) = {}
                          /\ u.t = "string" =>
                                 PainItems[i].lines[3] = <<"Urgencia:", u.s>>

\* the characters of a text, its pieces put together
RECURSIVE Concat(_)
Concat(text) == IF Len(text) = 0 THEN "" ELSE Head(text) \o Concat(Tail(text))

\* the strings of a sequence with ", " between them
RECURSIVE CommaJoined(_)
CommaJoined(a) ==
    IF Len(a) = 0 THEN ""
    ELSE IF Len(a) = 1 THEN a[1].s
    ELSE a[1].s \o ", " \o CommaJoined(Tail(a))

\* the direct competitors of the record and of the report
DirectsOf(rec) == GetPath(rec, <<"concorrencia", "diretos">>)
DirectItems == FieldItems(resultsHTML, "concorrencia", "Concorrentes Diretos:")

\* what the report shows after the label on line n of competitor i
ShownAfterLabel(i, n) == Concat(Tail(DirectItems[i].lines[n]))

\* C14: for every direct competitor, forcas (likewise fraquezas) is shown as
\* its elements joined with ", " when it is a sequence and unchanged when it
\* is a string: the sequence a, b and the string "a, b" both read "a, b"
C14_ForcasJoinedOrVerbatim ==
    (Rendered /\ IsArray(DirectsOf(currentAnalysis)) /\ Len(DirectsOf(currentAnalysis).a) > 0) =>
        \A i \in 1..Len(DirectsOf(currentAnalysis).a) :
            \A f \in {<<"forcas", 4>>, <<"fraquezas", 5>>} :
                \A v \in {Get(DirectsOf(currentAnalysis).a[i], f[1])} :
                    /\ IsArray(v) => ShownAfterLabel(i, f[2]) = CommaJoined(v.a)
                    /\ v.t = "string" => ShownAfterLabel(i, f[2]) = v.s
                    /\ v \in {AB, Str("a, b")} => ShownAfterLabel(i, f[2]) = "a, b"

\* a competitor with forcas a sequence and fraquezas a string is shown
C14_Witness ==
    /\ Rendered
    /\ HasBlock(resultsHTML, "concorrencia")
    /\ IsArray(DirectsOf(currentAnalysis))
    /\ Len(DirectsOf(currentAnalysis).a) > 0
    /\ Get(DirectsOf(currentAnalysis).a[1], "forcas") = AB
    /\ Get(DirectsOf(currentAnalysis).a[1], "fraquezas") = Str("a, b")
    /\ ShownAfterLabel(1, 4) = "a, b"
    /\ ShownAfterLabel(1, 5) = "a, b"

\* C15: when the analysis request fails, exactly one error notification is
\* shown for the submission, displayResults is not invoked for it (nothing
\* is scheduled, composed or raised), and a request is issued only by a
\* submission the form accepts
C15_AcquisitionFailure ==
    [][/\ FetchFail =>
            /\ errorNotes' = errorNotes + 1
            /\ request' = request - 1
            /\ displayTimer = <<>> /\ displayTimer' = <<>>
            /\ UNCHANGED <<currentAnalysis, resultsHTML, tabFnDefined, contentActive,
                           btnActive, discarded, raised>>
       /\ request' > request =>
            (~analysisInProgress /\ analysisInProgress')]_vars

\* the first submission has failed: one notification, nothing stored or
\* composed, no request in flight
C15_Witness ==
    /\ currentAnalysis = Null
    /\ resultsVisible
    /\ ~loadingVisible
    /\ errorNotes = 1
    /\ request = 0
    /\ ~analysisInProgress
    /\ displayTimer = <<>>
    /\ resultsHTML = EmptyHTML

\* C16: composing the report, exporting it and selecting a tab do not modify
\* the analysis record: the stored record changes only on the step that
\* receives a response, a step that composes, exports and selects nothing,
\* and is then the record received
C16_RecordNotMutated ==
    [][currentAnalysis' # currentAnalysis =>
          /\ request > 0
          /\ request' = request - 1
          /\ displayTimer' = <<currentAnalysis'>>
          /\ UNCHANGED <<resultsHTML, contentActive, btnActive, lastDownload, raised>>]_vars

\* the full record has been composed and exported and a tab selected, and
\* is stored as delivered
C16_Witness ==
    /\ currentAnalysis = FullRecord
    /\ resultsVisible
    /\ resultsHTML = generateResultsHTML(FullRecord).v
    /\ contentActive = {"psicografia"}
    /\ lastDownload # <<>>
    /\ \E now \in Times : Exported = generateComprehensiveReport(FullRecord, now).v

BlockOrder(html) == [i \in 1..Len(html.grid) |-> html.grid[i].sec]

\* C18: the composed report is the header block followed by the blocks of
\* the present sections in the fixed order escopo, avatar, dores_desejos,
\* concorrencia, mercado, palavras_chave, metricas, voz_mercado, projecoes,
\* plano_acao, whatever the key order of the record and the absent sections
C18_FixedSectionOrder ==
    Rendered =>
        /\ resultsHTML.header = <<ResultsHeader>>
        /\ BlockOrder(resultsHTML)
             = SelectSeq(<<"escopo", "avatar", "dores_desejos", "concorrencia", "mercado",
                           "palavras_chave", "metricas", "voz_mercado", "projecoes",
                           "plano_acao">>,
                         LAMBDA k : HasKey(currentAnalysis, k))

\* a record delivered with plano_acao first and a section absent is shown
\* with escopo first
C18_Witness ==
    /\ Rendered
    /\ Len(currentAnalysis.o) = 9
    /\ currentAnalysis.o[1][1] = "plano_acao"
    /\ ~HasKey(currentAnalysis, "mercado")
    /\ Len(resultsHTML.grid) = 9
    /\ resultsHTML.grid[1].sec = "escopo"
    /\ resultsHTML.grid[9].sec = "plano_acao"

\* the list at path of section k of the stored record
ListAt(k, path) ==
    IF HasKey(currentAnalysis, k) THEN GetPath(Get(currentAnalysis, k), path) ELSE Undef

\* the list of action-plan entries, as a field of the structured view
PlanoField == <<"plano_acao", <<>>, "Plano de Acao">>

\* the list fields the structured view shows joined in one paragraph
JoinedListFields ==
    {f \in ListFields : f[3] \in {"Melhores Meses:", "Piores Meses:"}}

\* item it of the view shows element e of the list of field f: a string is
\* the text of its last line, an entry shows each of its scalars on its line
ShowsElement(it, f, e) ==
    IF e.t = "string"
    THEN it.lines[Len(it.lines)] = <<e.s>>
    ELSE \A g \in ItemScalarFields :
            (g[1] = f[1] /\ g[2] = f[2] /\ Get(e, g[4]).t = "string" /\ Get(e, g[4]).s # "")
                => /\ g[5] <= Len(it.lines)
                   /\ it.lines[g[5]][Len(it.lines[g[5]])] = Get(e, g[4]).s

\* the lines of the action-plan entries of the document, in its order
PlanoLines(doc) ==
    SelectSeq(doc, LAMBDA ln : ln.sec = "plano_acao" /\ ln.kind = "item")

\* the structured view shows every non-empty list of the record element by
\* element, in the order delivered
ViewInDeliveredOrder ==
    \A f \in ListFields \cup {PlanoField} :
        \A l \in {ListAt(f[1], f[2])} :
            (IsArray(l) /\ Len(l.a) > 0 /\ HasBlock(resultsHTML, f[1])) =>
                \A its \in {FieldItems(resultsHTML, f[1], f[3])} :
                    IF f \in JoinedListFields
                    THEN /\ Len(its) = 1
                         /\ CommaJoined(l.a) # ""
                                => Concat(its[1].lines[1]) = CommaJoined(l.a)
                    ELSE /\ Len(its) = Len(l.a)
                         /\ \A i \in 1..Len(l.a) : ShowsElement(its[i], f, l.a[i])

\* the document shows the lists it serializes, and the action plan entry by
\* entry, in the order delivered
ExportInDeliveredOrder ==
    /\ \A f \in ExportFields :
           \A l \in {GetPath(currentAnalysis, f[3])} :
               (IsArray(l) /\ Len(l.a) > 0 /\ CommaJoined(l.a) # "")
                   => Concat(ExportLine(Exported, f[1], f[2], f[4]).text) = CommaJoined(l.a)
    /\ \A l \in {Get(currentAnalysis, "plano_acao")} :
           (IsArray(l) /\ Len(l.a) > 0) =>
               \A ls \in {PlanoLines(Exported)} :
                   /\ Len(ls) = Len(l.a)
                   /\ \A i \in 1..Len(l.a) :
                          \A g \in {<<"passo", 1>>, <<"acao", 3>>, <<"prazo", 5>>} :
                              Get(l.a[i], g[1]).t = "string"
                                  => ls[i].text[g[2]] = Get(l.a[i], g[1]).s

\* C19: every list of the record is rendered item by item in the order
\* delivered, nothing sorted, dropped or duplicated; the entries of plano_acao
\* keep the delivered order when passo is not ascending, in the structured
\* view and in the exported text
C19_ListsInDeliveredOrder ==
    /\ Rendered => ViewInDeliveredOrder
    /\ (currentAnalysis \in ConformingRecords /\ lastDownload # <<>>)
           => ExportInDeliveredOrder

\* a plan delivered as passo 2 then passo 1 is shown and exported as delivered
C19_Witness ==
    /\ Rendered
    /\ lastDownload # <<>>
    /\ Get(currentAnalysis, "plano_acao") = DescendingPlano
    /\ HasKey(currentAnalysis, "escopo")
    /\ HasBlock(resultsHTML, "plano_acao")
    /\ FieldItems(resultsHTML, "plano_acao", "Plano de Acao")[1].lines[1] = <<"2">>
    /\ FieldItems(resultsHTML, "plano_acao", "Plano de Acao")[2].lines[1] = <<"1">>
    /\ Len(PlanoLines(Exported)) = 2
    /\ PlanoLines(Exported)[1].text[1] = "2"
    /\ PlanoLines(Exported)[2].text[1] = "1"

\* the mappings from a free name to a value, as fields of the structured
\* view: <<section, key, label of the field>>
MapFields ==
    {<<"palavras_chave", "custos_plataforma", "Custos por Plataforma:">>,
     <<"metricas", "roi_canais", "ROI por Canal:">>}

\* a name with its first character in upper case and the rest unchanged
FirstUpper(k) ==
    CASE k = "google" -> "Google"
      [] k = "meta" -> "Meta"
      [] k = "tikTok" -> "TikTok"
      [] k = "1" -> "1"

\* C20: for custos_plataforma and roi_canais the structured view has one item
\* per entry of the mapping, in the order delivered, each labelled with its
\* key with the first character in upper case and the rest unchanged; the
\* keys of the stored mapping are those delivered
C20_MappingEntries ==
    Rendered =>
        \A f \in MapFields :
            \A mp \in {ListAt(f[1], <<f[2]>>)} :
                (mp.t = "object" /\ HasBlock(resultsHTML, f[1])) =>
                    \A its \in {FieldItems(resultsHTML, f[1], f[3])} :
                        /\ Len(its) = Len(mp.o)
                        /\ \A i \in 1..Len(mp.o) :
                               its[i].lines[1] = <<FirstUpper(mp.o[i][1])>>

\* the file downloadReport emits for the stored record at the clock reading now
FileOf(now) ==
    <<[name |-> <<"analise-completa-avatar-", ToString(now), ".txt">>,
       data |-> generateComprehensiveReport(currentAnalysis, now).v]>>

\* C21: downloadReport serializes the stored record, whatever the container
\* shows and whichever tab is active: a step that emits a file emits one file,
\* named analise-completa-avatar-<clock reading>.txt, whose text is the export
\* of currentAnalysis, and writes neither the record nor the view; no download
\* of a stored record of an allowed shape ends in a raise; while no record is
\* stored no file is emitted
C21_DownloadStoredRecord ==
    [][/\ lastDownload' # lastDownload =>
              /\ Truthy(currentAnalysis)
              /\ \E now \in Times :
                     /\ generateComprehensiveReport(currentAnalysis, now).ok
                     /\ lastDownload' = FileOf(now)
              /\ UNCHANGED <<currentAnalysis, resultsHTML, contentActive, btnActive,
                             errorNotes>>
       /\ ~Truthy(currentAnalysis) => (lastDownload = <<>> /\ lastDownload' = <<>>)
       /\ currentAnalysis \in ConformingRecords => "downloadReport" \notin raised'
      ]_vars

\* a file is emitted for a record that has been stored and is not yet shown
C21_Witness ==
    /\ currentAnalysis = FullRecord
    /\ displayTimer # <<>>
    /\ ~resultsVisible
    /\ resultsHTML = EmptyHTML
    /\ lastDownload = FileOf(1)

\* a step of shareResults or of the settling of its clipboard write
ShareStep == shareVars' # shareVars

\* C22: shareResults probes the host.  With navigator.share present it calls
\* it and the clipboard is neither written nor asked to be; with it absent
\* navigator.share is not called, the text asked to be copied is the page
\* reference, and the success notification is shown with the completion of a
\* pending copy, not before; no step of sharing shows an error notification
C22_ShareProbeWithFallback ==
    [][ShareStep =>
          /\ errorNotes' = errorNotes
          /\ UNCHANGED coreVars
          /\ nativeShare' = nativeShare
          /\ nativeShare =>
                 /\ shareCalls' = shareCalls + 1
                 /\ UNCHANGED <<clipboardWrites, clipboard, copyNotes>>
          /\ ~nativeShare =>
                 /\ shareCalls' = shareCalls
                 /\ clipboard' \in {clipboard, <<PageRef>>}
                 /\ copyNotes' # copyNotes =>
                        /\ copyNotes' = copyNotes + 1
                        /\ clipboardWrites > 0
                        /\ clipboardWrites' = clipboardWrites - 1
                        /\ clipboard' = <<PageRef>>
                 /\ clipboardWrites' > clipboardWrites =>
                        /\ clipboardWrites' = clipboardWrites + 1
                        /\ UNCHANGED <<clipboard, copyNotes>>
      ]_vars

\* on a host without navigator.share a copy has completed and been notified
\* while the report is displayed
C22_Witness ==
    /\ ~nativeShare
    /\ resultsVisible
    /\ resultsHTML.header # <<>>
    /\ clipboard = <<PageRef>>
    /\ copyNotes = 1
    /\ shareCalls = 0
    /\ errorNotes = 0

\* on a host with navigator.share it has been called and nothing was copied
C22_WitnessNative ==
    /\ nativeShare
    /\ resultsVisible
    /\ shareCalls = 1
    /\ clipboard = <<>>
    /\ clipboardWrites = 0
    /\ copyNotes = 0

\* C23: a submission whose nicho is empty or only spaces, made while no
\* analysis is in progress, issues no request and shows one error
\* notification; analysisInProgress stays false and the stored record, the
\* container and its tab state are as before
C23_BlankSubmissionRejected ==
    [][SubmitBlank =>
          /\ ~analysisInProgress
          /\ ~analysisInProgress'
          /\ request = 0
          /\ request' = 0
          /\ displayTimer' = displayTimer
          /\ errorNotes' = errorNotes + 1
          /\ UNCHANGED <<currentAnalysis, resultsHTML, contentActive, btnActive,
                         resultsVisible, loadingVisible>>
      ]_vars

\* a blank submission has been answered before any analysis was asked
C23_Witness ==
    /\ errorNotes = 1
    /\ currentAnalysis = Null
    /\ ~analysisInProgress
    /\ request = 0
    /\ ~resultsVisible
    /\ ~loadingVisible

\* the analyses under way: fetches in flight and display timeouts not yet fired
UnderWay == request + Len(displayTimer)

\* C24: at most one analysis is in progress at any time.  A submission made
\* while analysisInProgress is true changes nothing; a request is issued only
\* by a submission made while none is in progress; so there is never more
\* than one fetch in flight or display pending, each only while
\* analysisInProgress is true, and the stored record is written only by the
\* arrival of the response of that one request
C24_SingleAnalysis ==
    /\ [](/\ UnderWay <= 1
          /\ UnderWay = 1 => analysisInProgress)
    /\ [][/\ SubmitBusy => UNCHANGED vars
          /\ request' > request =>
                 /\ ~analysisInProgress
                 /\ analysisInProgress'
                 /\ UnderWay = 0
                 /\ UNCHANGED currentAnalysis
          /\ currentAnalysis' # currentAnalysis =>
                 /\ request = 1
                 /\ request' = 0
                 /\ displayTimer = <<>>
         ]_vars

\* a second analysis is in progress, its response stored and its display
\* pending, while the container still holds the report of the first
C24_Witness ==
    /\ analysisInProgress
    /\ request = 0
    /\ Len(displayTimer) = 1
    /\ currentAnalysis = FullRecord
    /\ resultsHTML # EmptyHTML
    /\ ~HasBlock(resultsHTML, "escopo")

\* C25: whenever an analysis is in progress, analysisInProgress eventually
\* becomes false again, whatever the response is, a record whose rendering
\* raises in the display callback included
C25_GuardReleased == analysisInProgress ~> ~analysisInProgress

\* C26: whenever the results container is visible and holds a report, the
\* stored record, which is the one downloadReport exports, is the record the
\* report was composed from: composing currentAnalysis gives the report shown
C26_StoredIsDisplayed ==
    (resultsVisible /\ resultsHTML # EmptyHTML) =>
        \A r \in {generateResultsHTML(currentAnalysis)} :
            r.ok /\ resultsHTML = r.v

\* C27: on a rendered avatar section, after any showAvatarTab calls with any
\* arguments, the button of a tab is flagged active exactly when the content
\* block of that tab is
C27_ButtonMatchesContent ==
    AvatarRendered =>
        \A tabName \in RecognizedTabs :
            (ButtonOf(tabName) \in btnActive) <=> (tabName \in contentActive)

\* what the results container holds: the report and its tab state
ContainerContent == <<resultsHTML, tabFnDefined, contentActive, btnActive>>

\* C28: a failed acquisition leaves the stored record and the content of the
\* results container, the report shown before and its tab state, as they
\* were: neither the accepted submission nor the report of its failure
\* writes them, and the failure makes the container visible again in place
\* of the loading state
C28_FailureKeepsState ==
    [][/\ SubmitValid =>
              /\ UNCHANGED <<currentAnalysis, ContainerContent>>
              /\ ~resultsVisible'
       /\ FetchFail =>
              /\ UNCHANGED <<currentAnalysis, ContainerContent>>
              /\ ~resultsVisible
              /\ resultsVisible'
              /\ ~loadingVisible'
      ]_vars

\* after a report was displayed and its second tab selected, a second
\* submission has failed: the record, the report and the tab are still
\* there and the container is visible
C28_Witness ==
    /\ errorNotes = 1
    /\ ~analysisInProgress
    /\ request = 0
    /\ currentAnalysis = FullRecord
    /\ resultsVisible
    /\ ~loadingVisible
    /\ HasBlock(resultsHTML, "avatar")
    /\ contentActive = {"psicografia"}
    /\ btnActive = {2}
    /\ discarded = <<>>

\* a collection of the record that is absent or has no entries
NoEntries(v) ==
    \/ IsNullish(v)
    \/ v.t = "object" /\ Len(v.o) = 0
    \/ v.t = "array" /\ Len(v.a) = 0

\* C29: in a section that is rendered, the block of custos_plataforma, of
\* roi_canais and of the entries of plano_acao is never without items: when
\* the mapping is absent or empty, or plano_acao has no entries, the block
\* holds one placeholder item
C29_NoEmptyCollectionBlock ==
    Rendered =>
        \A f \in {<<m[1], <<m[2]>>, m[3]>> : m \in MapFields} \cup {PlanoField} :
            (HasBlock(resultsHTML, f[1]) /\ NoEntries(ListAt(f[1], f[2]))) =>
                \A its \in {FieldItems(resultsHTML, f[1], f[3])} :
                    /\ Len(its) = 1
                    /\ IsPlaceholderItem(its[1])

\* C30: at most one progress interval is writing at any time: whatever the
\* sequence of submissions, a submission that fails quickly and is followed
\* by a new one included, the progress bar is never written by two
\* interleaved intervals
C30_OneProgressTimer == Len(intervals) <= 1

=============================================================================
